---- MODULE Spec2Model ----
(***************************************************************************)
(* Model of the toy_trader portfolio simulation core:                      *)
(*   - allocation.py       (_clean_long_only, _cap_and_redistribute,       *)
(*                          ProportionalAllocator, EqualWeightAllocator)   *)
(*   - execution.py        (NextBarExecutionModel.run)                     *)
(*   - multi_execution.py  (MultiNextBarExecutionModel.run)                *)
(*                                                                         *)
(* Python floats are modelled by exact extended rationals <<n, d>>:        *)
(*   d > 0  : the finite number n/d in lowest terms                        *)
(*   <<1,0>>: +inf      <<-1,0>>: -inf      <<0,0>>: NaN                   *)
(* Arithmetic and comparisons follow IEEE/Python semantics on the special  *)
(* values (NaN propagates, every comparison with NaN is false); rounding   *)
(* of finite results is not modelled.                                      *)
(***************************************************************************)
EXTENDS Integers, Sequences, FiniteSets, TLC

(***************************************************************************)
(* Extended rational arithmetic (Python float semantics)                   *)
(***************************************************************************)
RECURSIVE Gcd(_, _)
Gcd(a, b) == IF b = 0 THEN a ELSE Gcd(b, a % b)

AbsInt(x) == IF x < 0 THEN -x ELSE x

SignInt(x) == IF x < 0 THEN -1 ELSE IF x > 0 THEN 1 ELSE 0

\* the float n/d (d # 0), in lowest terms with a positive denominator
Rat(n, d) ==
    LET g == Gcd(AbsInt(n), AbsInt(d))
        s == IF d < 0 THEN -1 ELSE 1
    IN  <<(s * n) \div g, (s * d) \div g>>

NaN == <<0, 0>>
PosInf == <<1, 0>>
NegInf == <<-1, 0>>
Zero == <<0, 1>>
One == <<1, 1>>

IsNaN(x) == x = NaN
IsFinite(x) == x[2] # 0

\* finite sum, product and order, computed over the least common denominator
\* so that the intermediate integers stay small
AddFinite(x, y) ==
    LET g == Gcd(x[2], y[2])
    IN  Rat(x[1] * (y[2] \div g) + y[1] * (x[2] \div g), (x[2] \div g) * y[2])

MulFinite(x, y) ==
    LET g1 == Gcd(AbsInt(x[1]), y[2])
        g2 == Gcd(AbsInt(y[1]), x[2])
    IN  Rat((x[1] \div g1) * (y[1] \div g2), (x[2] \div g2) * (y[2] \div g1))

LtFinite(x, y) ==
    LET g == Gcd(x[2], y[2])
    IN  x[1] * (y[2] \div g) < y[1] * (x[2] \div g)

\* x < y on floats: False when either side is NaN
FLt(x, y) ==
    IF IsNaN(x) \/ IsNaN(y) THEN FALSE
    ELSE IF IsFinite(x) /\ IsFinite(y) THEN LtFinite(x, y)
    ELSE IF IsFinite(x) THEN y = PosInf
    ELSE IF IsFinite(y) THEN x = NegInf
    ELSE x = NegInf /\ y = PosInf

FEq(x, y) == ~IsNaN(x) /\ ~IsNaN(y) /\ x = y

FLe(x, y) == FLt(x, y) \/ FEq(x, y)

FGt(x, y) == FLt(y, x)

FGe(x, y) == FLe(y, x)

FNeg(x) == <<-x[1], x[2]>>

FAdd(x, y) ==
    IF IsNaN(x) \/ IsNaN(y) THEN NaN
    ELSE IF IsFinite(x) /\ IsFinite(y) THEN AddFinite(x, y)
    ELSE IF IsFinite(x) THEN y
    ELSE IF IsFinite(y) THEN x
    ELSE IF x = y THEN x ELSE NaN

FSub(x, y) == FAdd(x, FNeg(y))

FMul(x, y) ==
    IF IsNaN(x) \/ IsNaN(y) THEN NaN
    ELSE IF IsFinite(x) /\ IsFinite(y) THEN MulFinite(x, y)
    ELSE IF x[1] = 0 \/ y[1] = 0 THEN NaN
    ELSE <<SignInt(x[1]) * SignInt(y[1]), 0>>

\* x / y for a divisor that is not the finite zero (Python raises on that
\* one; every call site below guards it or models the raise explicitly)
FDiv(x, y) ==
    IF IsNaN(x) \/ IsNaN(y) THEN NaN
    ELSE IF IsFinite(x) /\ IsFinite(y) THEN MulFinite(x, Rat(y[2], y[1]))
    ELSE IF IsFinite(x) THEN Zero
    ELSE IF IsFinite(y) THEN <<SignInt(x[1]) * (IF y[1] < 0 THEN -1 ELSE 1), 0>>
    ELSE NaN

FAbs(x) == <<AbsInt(x[1]), x[2]>>

\* Python's min(a, b): b if b < a else a
FMin(a, b) == IF FLt(b, a) THEN b ELSE a

\* Python's sum(f[k] for k in S), starting from 0
RECURSIVE FSum(_, _)
FSum(f, S) ==
    IF S = {} THEN Zero
    ELSE LET k == CHOOSE x \in S : TRUE
         IN  FAdd(f[k], FSum(f, S \ {k}))

(***************************************************************************)
(* allocation.py                                                           *)
(***************************************************************************)
\* a raw value float() cannot convert (float(v) raises)
Garbage == <<0, -1>>

\* cap: Optional[float] = None
NoCap == <<0, -2>>

\* range(10_000): the iteration ceiling of the water-filling loop
MaxIter == 10000

\* {k: 0.0 for k in m}
ZeroWeights(m) == [k \in DOMAIN m |-> Zero]

\* _clean_long_only, one value: float(v) or 0.0 on an exception; NaN -> 0;
\* negative -> 0
CleanValue(v) ==
    LET x0 == IF v = Garbage THEN Zero ELSE v
        x1 == IF IsNaN(x0) THEN Zero ELSE x0
    IN  IF FLt(x1, Zero) THEN Zero ELSE x1

\* _clean_long_only
CleanLongOnly(raw) == [k \in DOMAIN raw |-> CleanValue(raw[k])]

\* faulty variant: no key is taken to have room below the cap
EligibleNone(w, cap, eps) == {}

\* eligible = [k for k, v in w.items() if v < cap - eps]
Eligible(w, cap, eps) == {k \in DOMAIN w : FLt(w[k], FSub(cap, eps))}

\* faulty variant: each pass hands out only half of the shortfall
RedistributeHalf(w, elig, cap, eps, leftover, base) ==
    LET half == FDiv(leftover, <<2, 1>>)
        add(k) == IF FLe(base, eps)
                  THEN FDiv(half, <<Cardinality(elig), 1>>)
                  ELSE FMul(half, FDiv(w[k], base))
        newv(k) == FMin(cap, FAdd(w[k], add(k)))
    IN  [w |-> [k \in DOMAIN w |-> IF k \in elig THEN newv(k) ELSE w[k]],
         changed |-> \E k \in elig : FGt(FAbs(FSub(newv(k), w[k])), eps)]

\* faulty variant: a new value is stored only when it differs from the old
\* one by more than eps
RedistributeDropsSmall(w, elig, cap, eps, leftover, base) ==
    LET add(k) == IF FLe(base, eps)
                  THEN FDiv(leftover, <<Cardinality(elig), 1>>)
                  ELSE FMul(leftover, FDiv(w[k], base))
        newv(k) == FMin(cap, FAdd(w[k], add(k)))
        moved(k) == FGt(FAbs(FSub(newv(k), w[k])), eps)
    IN  [w |-> [k \in DOMAIN w |-> IF k \in elig /\ moved(k) THEN newv(k) ELSE w[k]],
         changed |-> \E k \in elig : moved(k)]

\* one redistribution over the eligible keys; add(k) is what key k receives
Redistribute(w, elig, cap, eps, leftover, base) ==
    LET add(k) == IF FLe(base, eps)
                  THEN FDiv(leftover, <<Cardinality(elig), 1>>)
                  ELSE FMul(leftover, FDiv(w[k], base))
        newv(k) == FMin(cap, FAdd(w[k], add(k)))
    IN  [w |-> [k \in DOMAIN w |-> IF k \in elig THEN newv(k) ELSE w[k]],
         changed |-> \E k \in elig : FGt(FAbs(FSub(newv(k), w[k])), eps)]

\* the loop "for _ in range(10_000)" from iteration number it on; passes counts
\* the iterations begun, broke tells that a break ended the loop, exit which one
RECURSIVE WaterFill(_, _, _, _, _)
WaterFill(w, cap, budget, eps, it) ==
    IF it >= MaxIter THEN [w |-> w, passes |-> it, broke |-> FALSE, exit |-> "ceiling"]
    ELSE
      LET s == FSum(w, DOMAIN w)
          leftover == FSub(budget, s)
          elig == Eligible(w, cap, eps)
          base == FSum(w, elig)
          r == Redistribute(w, elig, cap, eps, leftover, base)
      IN  IF FGe(s, FSub(budget, eps))
          THEN [w |-> w, passes |-> it + 1, broke |-> TRUE, exit |-> "budget"]
          ELSE IF elig = {}
          THEN [w |-> w, passes |-> it + 1, broke |-> TRUE, exit |-> "not eligible"]
          ELSE IF ~r.changed
          THEN [w |-> r.w, passes |-> it + 1, broke |-> TRUE, exit |-> "not changed"]
          ELSE WaterFill(r.w, cap, budget, eps, it + 1)

\* the final numeric guard: if s > budget + eps, scale every weight by budget/s
Renormalize(w, budget, eps) ==
    LET s == FSum(w, DOMAIN w)
    IN  IF FGt(s, FAdd(budget, eps))
        THEN [k \in DOMAIN w |-> FMul(w[k], FDiv(budget, s))]
        ELSE w

\* faulty variant: the early return for cap <= 0 is missing
CapAndRedistributeNoGuard(weights, cap, budget, eps) ==
    LET w0 == [k \in DOMAIN weights |-> FMin(weights[k], cap)]
        r == WaterFill(w0, cap, budget, eps, 0)
    IN  [w |-> Renormalize(r.w, budget, eps), passes |-> r.passes,
         broke |-> r.broke, looped |-> TRUE, exit |-> r.exit]

\* _cap_and_redistribute, with the loop's pass count
CapAndRedistributeRun(weights, cap, budget, eps) ==
    IF FLe(cap, Zero)
    THEN [w |-> ZeroWeights(weights), passes |-> 0, broke |-> TRUE, looped |-> FALSE,
          exit |-> "no loop"]
    ELSE LET w0 == [k \in DOMAIN weights |-> FMin(weights[k], cap)]
             r == WaterFill(w0, cap, budget, eps, 0)
         IN  [w |-> Renormalize(r.w, budget, eps), passes |-> r.passes,
              broke |-> r.broke, looped |-> TRUE, exit |-> r.exit]

NoLoop(w) == [w |-> w, passes |-> 0, broke |-> TRUE, looped |-> FALSE, exit |-> "no loop"]

\* ProportionalAllocator.allocate
ProportionalRun(raw, budget, cap, eps) ==
    LET clean == CleanLongOnly(raw)
        s == FSum(clean, DOMAIN clean)
        w == [k \in DOMAIN clean |-> FMul(FDiv(clean[k], s), budget)]
    IN  IF FLe(budget, Zero) THEN NoLoop(ZeroWeights(raw))
        ELSE IF FLe(s, eps) THEN NoLoop(ZeroWeights(clean))
        ELSE IF cap # NoCap THEN CapAndRedistributeRun(w, cap, budget, eps)
        ELSE NoLoop(Renormalize(w, budget, eps))

\* EqualWeightAllocator.allocate
EqualWeightRun(raw, budget, cap, eps) ==
    LET clean == CleanLongOnly(raw)
        active == {k \in DOMAIN clean : FGt(clean[k], eps)}
        w0 == FDiv(budget, <<Cardinality(active), 1>>)
        w == [k \in DOMAIN clean |-> IF k \in active THEN w0 ELSE Zero]
    IN  IF FLe(budget, Zero) THEN NoLoop(ZeroWeights(raw))
        ELSE IF active = {} THEN NoLoop(ZeroWeights(clean))
        ELSE IF cap # NoCap THEN CapAndRedistributeRun(w, cap, budget, eps)
        ELSE NoLoop(w)

\* allocate of the allocator named by policy
AllocateRun(policy, raw, budget, cap, eps) ==
    IF policy = "proportional" THEN ProportionalRun(raw, budget, cap, eps)
    ELSE EqualWeightRun(raw, budget, cap, eps)

Allocate(policy, raw, budget, cap, eps) == AllocateRun(policy, raw, budget, cap, eps).w

\* allocate reaches a division whose divisor is the float zero (Python raises
\* ZeroDivisionError): v / s in ProportionalAllocator, budget / len(active) in
\* EqualWeightAllocator
DividesByZero(policy, raw, budget, eps) ==
    LET clean == CleanLongOnly(raw)
        s == FSum(clean, DOMAIN clean)
        active == {k \in DOMAIN clean : FGt(clean[k], eps)}
    IN  /\ ~FLe(budget, Zero)
        /\ IF policy = "proportional" THEN ~FLe(s, eps) /\ s = Zero
           ELSE active # {} /\ Cardinality(active) = 0

\* faulty variant: the sanitized values are written back into the caller's dict
RawCleanedInPlace(raw) == CleanLongOnly(raw)

\* the caller's raw dict after allocate: the code only reads it (raw.items(),
\* "for k in raw"); _clean_long_only fills a dict of its own, out
RawAfterAllocate(raw) == raw

(***************************************************************************)
(* allocation.py with the rounding of float sums, in dict order            *)
(***************************************************************************)
\* significand bits of the float format the sums are rounded to (a Python
\* float has 53; a short significand shows the same rounding on small inputs)
MantBits == 3

\* the positive rational n/d scaled by a power of two into
\* [2^(MantBits-1), 2^MantBits): <<scaled numerator, scaled denominator, exponent>>
RECURSIVE Normalize(_, _, _)
Normalize(n, d, e) ==
    IF n < d * 2^(MantBits - 1) THEN Normalize(2 * n, d, e - 1)
    ELSE IF n >= d * 2^MantBits THEN Normalize(n, 2 * d, e + 1)
    ELSE <<n, d, e>>

\* n/d >= 0 to the nearest integer, ties to even
NearestEven(n, d) ==
    LET fl == n \div d
        twice == 2 * (n - fl * d)
    IN  IF twice < d THEN fl
        ELSE IF twice > d THEN fl + 1
        ELSE IF fl % 2 = 0 THEN fl ELSE fl + 1

\* the float nearest to x (round to nearest, ties to even); NaN, the
\* infinities and 0 are themselves
RoundTo(x) ==
    IF ~IsFinite(x) \/ x[1] = 0 THEN x
    ELSE LET nz == Normalize(AbsInt(x[1]), x[2], 0)
             m == NearestEven(nz[1], nz[2])
             mag == IF nz[3] >= 0 THEN Rat(m * 2^(nz[3]), 1) ELSE Rat(m, 2^(-nz[3]))
         IN  IF x[1] < 0 THEN FNeg(mag) ELSE mag

\* sum(f.values()) of a dict whose keys were inserted in the order ord: the
\* additions are made left to right from 0, each one rounded
RECURSIVE SumInOrder(_, _, _)
SumInOrder(f, ord, n) ==
    IF n = 0 THEN Zero
    ELSE RoundTo(FAdd(SumInOrder(f, ord, n - 1), f[ord[n]]))

\* ProportionalAllocator.allocate without a cap, on a raw dict whose keys
\* were inserted in the order ord, every float operation rounded
ProportionalInOrder(ord, raw, budget, eps) ==
    LET clean == CleanLongOnly(raw)
        s == SumInOrder(clean, ord, Len(ord))
        w == [k \in DOMAIN clean |-> RoundTo(FMul(RoundTo(FDiv(clean[k], s)), budget))]
        sw == SumInOrder(w, ord, Len(ord))
        scale == RoundTo(FDiv(budget, sw))
    IN  IF FLe(budget, Zero) THEN ZeroWeights(raw)
        ELSE IF FLe(s, eps) THEN ZeroWeights(clean)
        ELSE IF FGt(sw, RoundTo(FAdd(budget, eps)))
             THEN [k \in DOMAIN w |-> RoundTo(FMul(w[k], scale))]
             ELSE w

\* the insertion orders of a dict with the keys S
InsertionOrders(S) ==
    {ord \in [1..Cardinality(S) -> S] : \A j, k \in 1..Cardinality(S) : ord[j] = ord[k] => j = k}

(***************************************************************************)
(* Bounds and input sets                                                   *)
(***************************************************************************)
\* longest bar index a run is given
MaxBars == 2

\* fee_bps / 10_000.0, slippage_bps / 10_000.0
BpsPerUnit == 10000

\* the instruments of a multi-asset bar set; md.symbol of the single-asset run
Symbols == {"A", "B"}
SingleSymbol == "A"

\* the instruments handed to an allocator
AllocSymbols == {"A", "B", "C"}

\* ExecutionParams values the runs are started with
ParamChoices ==
    { [fee_bps |-> 0, slippage_bps |-> 0, fill_price |-> "close", eps |-> Rat(1, 1000)],
      [fee_bps |-> 5000, slippage_bps |-> 5000, fill_price |-> "open", eps |-> Rat(1, 4)],
      [fee_bps |-> 20000, slippage_bps |-> 0, fill_price |-> "open", eps |-> Rat(1, 1000)] }

\* rows of a bar frame (the columns the execution models read)
GoodRows == { [Open |-> <<2, 1>>, Close |-> One], [Open |-> One, Close |-> <<2, 1>>] }
ZeroCloseRow == [Open |-> One, Close |-> Zero]
NegativeCloseRow == [Open |-> One, Close |-> <<-1, 1>>]
\* a bar that closes at half its Open
FallingRow == [Open |-> One, Close |-> <<1, 2>>]
Rows == GoodRows \cup {ZeroCloseRow, NegativeCloseRow, FallingRow}
MultiRows == GoodRows \cup {ZeroCloseRow}

\* values of a target_position series
TargetValues == { Zero, <<1, 16>>, <<1, 2>>, One, NaN, <<3, 2>>, <<-1, 2>> }
MultiTargetValues == { Zero, <<1, 2>>, One, NaN, <<3, 2>> }

\* how a Signals index relates to the bar index
IndexChoices == {"equal", "differs", "missing"}

(***************************************************************************)
(* dicts                                                                   *)
(***************************************************************************)
EmptyDict == <<>>

DictGet(d, k, default) == IF k \in DOMAIN d THEN d[k] ELSE default

DictSet(d, k, v) == [x \in (DOMAIN d) \cup {k} |-> IF x = k THEN v ELSE d[x]]

DictPop(d, k) == [x \in (DOMAIN d) \ {k} |-> d[x]]

\* PortfolioState(cash=initial_cash), as the engines build it
EngineInitialState ==
    [cash |-> <<4, 1>>, positions |-> EmptyDict, last_prices |-> EmptyDict]

\* a caller's PortfolioState that already holds a position
HoldingInitialState ==
    [cash |-> One, positions |-> DictSet(EmptyDict, "A", <<2, 1>>),
     last_prices |-> DictSet(EmptyDict, "A", One)]

(***************************************************************************)
(* execution.py / multi_execution.py: the pieces of one bar                *)
(***************************************************************************)
\* compute_equity: cash plus qty * price over the positions that have a price
RECURSIVE EquitySum(_, _, _)
EquitySum(pos, lp, S) ==
    IF S = {} THEN Zero
    ELSE LET k == CHOOSE x \in S : TRUE
             term == IF k \in DOMAIN lp THEN FMul(pos[k], lp[k]) ELSE Zero
         IN  FAdd(term, EquitySum(pos, lp, S \ {k}))

\* faulty variant: the holdings are added as quantities, not marked at their price
ComputeEquityUnmarked(cash_, pos_, lp_) ==
    FAdd(cash_, EquitySum(pos_, [k \in DOMAIN lp_ |-> One], DOMAIN pos_))

ComputeEquity(cash_, pos_, lp_) == FAdd(cash_, EquitySum(pos_, lp_, DOMAIN pos_))

\* faulty variant: an out-of-range target is clamped into [0,1] instead of rejected
TargetFractionClamped(desired_raw) ==
    IF IsNaN(desired_raw) THEN Zero
    ELSE IF FLt(desired_raw, Zero) THEN Zero
    ELSE IF FGt(desired_raw, One) THEN One
    ELSE desired_raw

\* target_fraction = 0.0 if pd.isna(desired_raw) else float(desired_raw)
TargetFraction(desired_raw) == IF IsNaN(desired_raw) THEN Zero ELSE desired_raw

\* 0.0 <= target_fraction <= 1.0
TargetInRange(tf) == FLe(Zero, tf) /\ FLe(tf, One)

\* faulty variant: only a negative Close is rejected
CloseRejectedNegative(close_price) == FLt(close_price, Zero)

\* the multi-asset guard "if close_price <= 0: raise"
CloseRejected(close_price) == FLe(close_price, Zero)

\* faulty variant: the sized value is not converted to units at the Close
DesiredQtyInCash(tf, equity_for_sizing, close_price) == FMul(tf, equity_for_sizing)

\* desired_qty = (target_fraction * equity_for_sizing) / close_price
DesiredQty(tf, equity_for_sizing, close_price) ==
    FDiv(FMul(tf, equity_for_sizing), close_price)

FeeRate(p) == Rat(p.fee_bps, BpsPerUnit)

SlipRate(p) == Rat(p.slippage_bps, BpsPerUnit)

\* fill_col = "Open" if fill_price == "open" else "Close"; raw_price = row[fill_col]
RawPrice(row, p) == IF p.fill_price = "open" THEN row.Open ELSE row.Close

\* exec_price = raw_price * (1 + slip) if delta > 0 else raw_price * (1 - slip)
ExecPrice(raw_price, delta, slip) ==
    IF FGt(delta, Zero) THEN FMul(raw_price, FAdd(One, slip))
    ELSE FMul(raw_price, FSub(One, slip))

\* faulty variant: the fee is left out of the cost of a unit
MaxBuyQtyNoFee(cash_, exec_price, fee_rate) ==
    LET m == IF FGt(exec_price, Zero) THEN FDiv(cash_, exec_price) ELSE Zero
    IN  IF FLt(m, Zero) THEN Zero ELSE m

\* max_buy_qty = cash / denom if denom > 0 else 0.0, floored at 0
MaxBuyQty(cash_, exec_price, fee_rate) ==
    LET denom == FMul(exec_price, FAdd(One, fee_rate))
        m == IF FGt(denom, Zero) THEN FDiv(cash_, denom) ELSE Zero
    IN  IF FLt(m, Zero) THEN Zero ELSE m

\* faulty variant: a buy is filled in full, on the credit of the sales that
\* come later in the bar
ClampBuyOnCredit(delta, cash_, exec_price, fee_rate) == delta

\* "do not overspend on buys": a buy is cut down to max_buy_qty
ClampBuy(delta, cash_, exec_price, fee_rate) ==
    IF FGt(delta, Zero) /\ FGt(delta, MaxBuyQty(cash_, exec_price, fee_rate))
    THEN MaxBuyQty(cash_, exec_price, fee_rate)
    ELSE delta

\* faulty variant: only buys are charged
FeeOnBuysOnly(delta, exec_price, fee_rate) ==
    IF FGt(delta, Zero) THEN FMul(FMul(delta, exec_price), fee_rate) ELSE Zero

\* faulty variant: no delta is too small to trade
WithinEpsNever(delta, eps) == FALSE

\* multi-asset: "if abs(delta) <= self.params.eps: continue"
WithinEps(delta, eps) == FLe(FAbs(delta), eps)

\* faulty variant: every bar trades
ExceedsEpsAlways(delta, eps) == TRUE

\* single-asset: "if abs(delta) > self.params.eps:" guards the trade
ExceedsEps(delta, eps) == FGt(FAbs(delta), eps)

\* fee = abs(delta) * exec_price * fee_rate
Fee(delta, exec_price, fee_rate) == FMul(FMul(FAbs(delta), exec_price), fee_rate)

\* cash -= delta * exec_price; cash -= fee
CashAfter(cash_, delta, exec_price, fee) ==
    FSub(FSub(cash_, FMul(delta, exec_price)), fee)

\* if abs(cash) < eps: cash = 0.0
SnapCash(cash_, eps) == IF FLt(FAbs(cash_), eps) THEN Zero ELSE cash_

\* the position entry is dropped when abs(new_qty) < eps, else set
PositionsAfter(pos, sym, new_qty, eps) ==
    IF FLt(FAbs(new_qty), eps) THEN DictPop(pos, sym) ELSE DictSet(pos, sym, new_qty)

MakeFill(sym, ts, exec_price, delta, fee) ==
    [symbol |-> sym, ts |-> ts, price |-> exec_price, qty |-> delta, fee |-> fee]

\* faulty variant: the new Fill is put in front of the list
PrependFill(fills_, new) == new \o fills_

\* fills.append(Fill(...)) when the instrument traded (new holds the Fill),
\* nothing otherwise (new is empty)
AppendFill(fills_, new) == fills_ \o new

\* positions = dict(initial_state.positions); last_prices = dict(initial_state.last_prices):
\* the dicts of initial_state that run copies into its working locals
\* instead of working on the caller's objects
EntryCopies == {"positions", "last_prices"}

\* faulty variant: the snapshot is handed the working dicts themselves
SnapshotCopiesNone == {}

\* positions=dict(positions), last_prices=dict(last_prices): the dicts a snapshot
\* gets as copies of its own instead of references to the working dicts
SnapshotCopies == {"positions", "last_prices"}

\* what a holder of the PortfolioState s reads in it, when the dicts named in
\* copied are s's own and the other ones are the working dicts pos_ and lp_
\* (cash and equity are floats)
ReadState(s, copied, pos_, lp_) ==
    [s EXCEPT !.positions = IF "positions" \in copied THEN @ ELSE pos_,
              !.last_prices = IF "last_prices" \in copied THEN @ ELSE lp_]

\* PortfolioState(cash, dict(positions), dict(last_prices), equity)
Snapshot(cash_, pos_, lp_) ==
    [cash |-> cash_, positions |-> pos_, last_prices |-> lp_,
     equity |-> ComputeEquity(cash_, pos_, lp_)]

\* The body of the multi-asset symbol loop for one instrument: what it
\* raises, or the cash, positions and fill it leaves.  (The division by Close
\* raises on a zero divisor; the guard before it leaves that unreachable.)
MultiSymbolStep(sym, row, desired_raw, ts, cash_, pos_, lp_, p) ==
    LET close_price == row.Close
        cur_qty == DictGet(pos_, sym, Zero)
        tf == TargetFraction(desired_raw)
        equity_for_sizing == ComputeEquity(cash_, pos_, lp_)
        delta0 == FSub(DesiredQty(tf, equity_for_sizing, close_price), cur_qty)
        exec_price == ExecPrice(RawPrice(row, p), delta0, SlipRate(p))
        delta == ClampBuy(delta0, cash_, exec_price, FeeRate(p))
        fee == Fee(delta, exec_price, FeeRate(p))
        keep == [raised |-> "none", cash |-> cash_, positions |-> pos_, fill |-> <<>>]
    IN  IF ~TargetInRange(tf) THEN [keep EXCEPT !.raised = "target_fraction"]
        ELSE IF CloseRejected(close_price) THEN [keep EXCEPT !.raised = "close_price"]
        ELSE IF close_price = Zero THEN [keep EXCEPT !.raised = "ZeroDivisionError"]
        ELSE IF WithinEps(delta0, p.eps) THEN keep
        ELSE IF WithinEps(delta, p.eps) THEN keep
        ELSE [raised |-> "none",
              cash |-> SnapCash(CashAfter(cash_, delta, exec_price, fee), p.eps),
              positions |-> PositionsAfter(pos_, sym, FAdd(cur_qty, delta), p.eps),
              fill |-> <<MakeFill(sym, ts, exec_price, delta, fee)>>]

\* The body of the single-asset bar loop up to the fill (no Close guard: a
\* zero Close makes the division raise ZeroDivisionError, no buy clamp, no
\* cash snap).
SingleBarStep(sym, row, desired_raw, ts, cash_, pos_, lp_, p) ==
    LET close_price == row.Close
        cur_qty == DictGet(pos_, sym, Zero)
        tf == TargetFraction(desired_raw)
        equity_for_sizing == ComputeEquity(cash_, pos_, lp_)
        delta == FSub(DesiredQty(tf, equity_for_sizing, close_price), cur_qty)
        exec_price == ExecPrice(RawPrice(row, p), delta, SlipRate(p))
        fee == Fee(delta, exec_price, FeeRate(p))
        keep == [raised |-> "none", cash |-> cash_, positions |-> pos_, fill |-> <<>>]
    IN  IF ~TargetInRange(tf) THEN [keep EXCEPT !.raised = "target_fraction"]
        ELSE IF close_price = Zero THEN [keep EXCEPT !.raised = "ZeroDivisionError"]
        ELSE IF ~ExceedsEps(delta, p.eps) THEN keep
        ELSE [raised |-> "none",
              cash |-> CashAfter(cash_, delta, exec_price, fee),
              positions |-> PositionsAfter(pos_, sym, FAdd(cur_qty, delta), p.eps),
              fill |-> <<MakeFill(sym, ts, exec_price, delta, fee)>>]

(***************************************************************************)
(* strategies.py: the execution lag; engine.py                             *)
(***************************************************************************)
\* bars of a series the engine runs on
LagBars == 3

\* initial_state = PortfolioState(cash=self.initial_cash), for an engine built
\* with initial_cash = 210
BacktestInitialState ==
    [cash |-> <<210, 1>>, positions |-> EmptyDict, last_prices |-> EmptyDict]

\* a bar series whose Closes start 100, 110, 105 (and stay there)
ScenarioBars ==
    [n \in 1..LagBars |->
        IF n = 1 THEN [Open |-> <<100, 1>>, Close |-> <<100, 1>>]
        ELSE IF n = 2 THEN [Open |-> <<100, 1>>, Close |-> <<110, 1>>]
        ELSE [Open |-> <<110, 1>>, Close |-> <<105, 1>>]]

\* a series that halves from bar to bar, each bar opening at the Close of the
\* one before
FallingBars ==
    [n \in 1..LagBars |-> [Open |-> Rat(64, 2^(n - 1)), Close |-> Rat(64, 2^n)]]

BarSeriesChoices == {ScenarioBars, FallingBars}

\* values of a strategy's raw target: 0.0 / 1.0 of the timing strategies,
\* allocation_fraction of BuyHold
RawTargetValues == {Zero, <<1, 2>>, One}

\* shift_for_execution values (an int the params do not validate)
ShiftValues == {-1, 0, 1, 2}

\* faulty variant: the lag is not applied
ApplyFillOnly(target_, shift_) ==
    [n \in 1..Len(target_) |-> IF IsNaN(target_[n]) THEN Zero ELSE target_[n]]

\* _apply_shift_and_fill: target.shift(k) moves the values k positions along
\* the index (towards later bars for k > 0) and leaves NaN where nothing
\* arrives; fillna(0.0) turns every NaN into 0
ApplyShiftAndFill(target_, shift_) ==
    [n \in 1..Len(target_) |->
        IF (n - shift_) \in 1..Len(target_) /\ ~IsNaN(target_[n - shift_])
        THEN target_[n - shift_]
        ELSE Zero]

\* values a strategy's target_position holds at a timestamp of a
\* multi-asset backtest (any Strategy subclass: the engine takes what it gets)
PortfolioRawValues == {Zero, One, NaN, PosInf}

\* allocation_budget values in (0, 1]
PortfolioBudgets == {<<1, 2>>, One}

\* the allocators a MultiBacktestEngine is built with
PortfolioAllocators ==
    [policy : {"proportional", "equal"}, cap : {NoCap, <<1, 2>>}, eps : {Rat(1, 1000)}]

\* ExecutionParams of the backtests of a portfolio
PortfolioParams == {p \in ParamChoices : p.fee_bps = 5000}

\* raw[sym] = float(v) if v == v else 0.0
RawIntent(raw_) == [sym \in DOMAIN raw_ |-> IF IsNaN(raw_[sym]) THEN Zero ELSE raw_[sym]]

\* w = self.allocator.allocate(raw, budget=self.allocation_budget);
\* weights_by_sym[sym].append(float(w.get(sym, 0.0)))
WeightsAt(policy, raw_, budget, cap, eps) ==
    LET w == Allocate(policy, RawIntent(raw_), budget, cap, eps)
    IN  [sym \in DOMAIN raw_ |-> DictGet(w, sym, Zero)]

(***************************************************************************)
(* allocator inputs                                                        *)
(***************************************************************************)
RawValues == { Garbage, NaN, PosInf, NegInf, <<-1, 1>>, Zero, <<1, 16>>, One, <<10, 1>> }
BudgetValues == { <<-1, 1>>, Zero, <<1, 2>>, One }
CapValues == { NoCap, <<-1, 1>>, Zero, <<3, 10>>, <<1, 2>>, One }
EpsValues == { Rat(1, 1000), Rat(1, 4) }
Policies == { "proportional", "equal" }

AllocInputs ==
    [policy : Policies, raw : [AllocSymbols -> RawValues], budget : BudgetValues,
     cap : CapValues, eps : EpsValues]

NoAllocInput ==
    [policy |-> "proportional", raw |-> EmptyDict, budget |-> Zero, cap |-> NoCap,
     eps |-> Rat(1, 1000)]

(***************************************************************************)
(* State                                                                   *)
(***************************************************************************)
VARIABLES
    mode,           \* which entry point runs: "multi", "single", "alloc", "engine", "portfolio"
    params,         \* self.params (ExecutionParams)
    symbols,        \* mmd.symbols, the processing order (<<md.symbol>> when single)
    initial_state,  \* the caller's PortfolioState
    sig_index,      \* the Signals index against the bar index
    md_bars,        \* md.bars, when run is driven by BacktestEngine: the rows in index order
    raw_target,     \* the strategy's target series before the execution lag
    shift_for_execution,
    target_position,    \* Signals.target_position, as generate_signals returns it
    pc,             \* position of run / allocate
    t,              \* number of bars of the index taken so far (ts of the current bar)
    bar,            \* the rows of the current ts, per symbol
    target,         \* target_position.loc[ts] of the symbols sized so far in this bar
    i,              \* position in symbols within the trade pass
    cash,
    positions,
    last_prices,
    fills,
    states,
    err,            \* the exception run raised, "none" otherwise
    ret,            \* what run returned to its caller: <<>> or <<[fills, states]>>
    a_in,           \* the arguments of allocate
    a_out,          \* what allocate returned, with the loop's pass count
    a_again         \* what a second call with the same arguments returned

vars == <<mode, params, symbols, initial_state, sig_index, md_bars, raw_target,
          shift_for_execution, target_position, pc, t, bar, target, i, cash,
          positions, last_prices, fills, states, err, ret, a_in, a_out, a_again>>

\* the strategy's side of a BacktestEngine run (unused by the other entry points)
sigVars == <<md_bars, raw_target, shift_for_execution, target_position>>

runVars == <<mode, params, symbols, initial_state, sig_index, sigVars>>

allocVars == <<a_in, a_out, a_again>>

\* run's locals after "cash = initial_state.cash; positions = dict(...); ..."
InitRun(m, syms, inits) ==
    /\ mode = m
    /\ params \in ParamChoices
    /\ symbols = syms
    /\ initial_state \in inits
    /\ sig_index \in IndexChoices
    /\ md_bars = <<>> /\ raw_target = <<>> /\ shift_for_execution = 0
    /\ target_position = <<>>
    /\ pc = "check"
    /\ t = 0
    /\ bar = EmptyDict
    /\ target = EmptyDict
    /\ i = 0
    /\ cash = initial_state.cash
    /\ positions = initial_state.positions
    /\ last_prices = initial_state.last_prices
    /\ fills = <<>>
    /\ states = <<>>
    /\ err = "none"
    /\ ret = <<>>
    /\ a_in = NoAllocInput
    /\ a_out = NoLoop(EmptyDict)
    /\ a_again = NoLoop(EmptyDict)

InitMulti ==
    \E syms \in {<<"A", "B">>, <<"B", "A">>} : InitRun("multi", syms, {EngineInitialState})

\* a multi-asset run whose caller already holds an instrument
InitMultiHeld ==
    \E syms \in {<<"A", "B">>, <<"B", "A">>} :
        InitRun("multi", syms, {EngineInitialState, HoldingInitialState})

\* (a single-asset run is handed one Signals object: it has an index, equal to
\* the bar index or not)
InitSingle ==
    /\ InitRun("single", <<SingleSymbol>>, {EngineInitialState, HoldingInitialState})
    /\ sig_index # "missing"

\* BacktestEngine.run before generate_signals: md fetched, the strategy's raw
\* target series and lag fixed
InitEngine ==
    /\ mode = "engine"
    /\ params \in ParamChoices
    /\ symbols = <<SingleSymbol>>
    /\ initial_state = BacktestInitialState
    /\ sig_index = "equal"
    /\ md_bars \in BarSeriesChoices
    /\ raw_target \in [1..LagBars -> RawTargetValues]
    /\ shift_for_execution \in ShiftValues
    /\ target_position = <<>>
    /\ pc = "signals"
    /\ t = 0
    /\ bar = EmptyDict
    /\ target = EmptyDict
    /\ i = 0
    /\ cash = initial_state.cash
    /\ positions = initial_state.positions
    /\ last_prices = initial_state.last_prices
    /\ fills = <<>>
    /\ states = <<>>
    /\ err = "none"
    /\ ret = <<>>
    /\ a_in = NoAllocInput
    /\ a_out = NoLoop(EmptyDict)
    /\ a_again = NoLoop(EmptyDict)

\* MultiBacktestEngine.run after get_bars and generate_signals: the raw
\* signals of every symbol fixed, no weight computed yet (a_in holds the
\* allocator and the budget, and the raw dict of its latest call)
InitPortfolio ==
    /\ mode = "portfolio"
    /\ params \in PortfolioParams
    /\ symbols = <<"A", "B">>
    /\ initial_state = EngineInitialState
    /\ sig_index = "equal"
    /\ md_bars = <<>>
    /\ raw_target \in [1..MaxBars -> [Symbols -> PortfolioRawValues]]
    /\ shift_for_execution = 0
    /\ target_position = <<>>
    /\ pc = "weights"
    /\ t = 0
    /\ bar = EmptyDict
    /\ target = EmptyDict
    /\ i = 0
    /\ cash = initial_state.cash
    /\ positions = initial_state.positions
    /\ last_prices = initial_state.last_prices
    /\ fills = <<>>
    /\ states = <<>>
    /\ err = "none"
    /\ ret = <<>>
    /\ \E al \in PortfolioAllocators, b \in PortfolioBudgets :
          a_in = [policy |-> al.policy, raw |-> EmptyDict, budget |-> b, cap |-> al.cap,
                  eps |-> al.eps]
    /\ a_out = NoLoop(EmptyDict)
    /\ a_again = NoLoop(EmptyDict)

InitAlloc ==
    /\ mode = "alloc"
    /\ params = CHOOSE p \in ParamChoices : p.fee_bps = 0
    /\ symbols = <<>>
    /\ initial_state = EngineInitialState
    /\ sig_index = "equal"
    /\ md_bars = <<>> /\ raw_target = <<>> /\ shift_for_execution = 0
    /\ target_position = <<>>
    /\ pc = "allocate"
    /\ t = 0
    /\ bar = EmptyDict
    /\ target = EmptyDict
    /\ i = 0
    /\ cash = Zero
    /\ positions = EmptyDict
    /\ last_prices = EmptyDict
    /\ fills = <<>>
    /\ states = <<>>
    /\ err = "none"
    /\ ret = <<>>
    /\ a_in \in AllocInputs
    /\ a_out = NoLoop(EmptyDict)
    /\ a_again = NoLoop(EmptyDict)

(***************************************************************************)
(* MultiNextBarExecutionModel.run                                          *)
(***************************************************************************)
\* faulty variant: run starts on the bars without looking at the signal index
CheckIndexSkipped ==
    /\ pc = "check"
    /\ pc' = "bar" /\ err' = err
    /\ UNCHANGED <<runVars, t, bar, target, i, cash, positions, last_prices, fills,
                   states, ret, allocVars>>

\* the index check that opens run: a missing or differently indexed signal raises
CheckIndex ==
    /\ pc = "check"
    /\ IF sig_index = "equal"
       THEN pc' = "bar" /\ err' = err
       ELSE pc' = "raised" /\ err' = "alignment"
    /\ UNCHANGED <<runVars, t, bar, target, i, cash, positions, last_prices, fills,
                   states, ret, allocVars>>

\* faulty variant: only the first instrument of the order is marked before
\* the trading starts
MultiMarkPassFirstOnly ==
    /\ mode = "multi" /\ pc = "bar" /\ t < MaxBars
    /\ \E rows \in [Symbols -> MultiRows] :
          /\ bar' = rows
          /\ last_prices' = DictSet(last_prices, symbols[1], rows[symbols[1]].Close)
    /\ t' = t + 1
    /\ target' = EmptyDict
    /\ i' = 1
    /\ pc' = "trade"
    /\ UNCHANGED <<runVars, cash, positions, fills, states, err, ret, allocVars>>

\* faulty variant: the marks of the bar are read from the rows of the bar
\* that follows
MultiMarkPassAhead ==
    /\ mode = "multi" /\ pc = "bar" /\ t < MaxBars
    /\ \E rows \in [Symbols -> MultiRows], later \in [Symbols -> MultiRows] :
          /\ bar' = rows
          /\ last_prices' = [k \in (DOMAIN last_prices) \cup Symbols |->
                               IF k \in Symbols THEN later[k].Close ELSE last_prices[k]]
    /\ t' = t + 1
    /\ target' = EmptyDict
    /\ i' = 1
    /\ pc' = "trade"
    /\ UNCHANGED <<runVars, cash, positions, fills, states, err, ret, allocVars>>

\* "for ts in idx" takes the next timestamp; the mark pass sets last_prices of
\* every symbol to its Close before any symbol trades
MarkPassOn(rows) ==
    /\ bar' = rows
    /\ last_prices' = [k \in (DOMAIN last_prices) \cup Symbols |->
                         IF k \in Symbols THEN rows[k].Close ELSE last_prices[k]]
    /\ t' = t + 1
    /\ target' = EmptyDict
    /\ i' = 1
    /\ pc' = "trade"
    /\ UNCHANGED <<runVars, cash, positions, fills, states, err, ret, allocVars>>

\* the mark pass of a run called directly: any rows
MultiMarkPass ==
    /\ mode = "multi" /\ pc = "bar" /\ t < MaxBars
    /\ \E rows \in [Symbols -> MultiRows] : MarkPassOn(rows)

\* one instrument of the trade pass, in the order of symbols
MultiTradeOn(desired_raw) ==
    /\ \E sym \in {symbols[i]} :
          \E r \in {MultiSymbolStep(sym, bar[sym], desired_raw, t, cash, positions,
                                    last_prices, params)} :
              /\ target' = DictSet(target, sym, desired_raw)
              /\ IF r.raised # "none"
                 THEN /\ pc' = "raised" /\ err' = r.raised
                      /\ UNCHANGED <<i, cash, positions, fills>>
                 ELSE /\ cash' = r.cash
                      /\ positions' = r.positions
                      /\ fills' = AppendFill(fills, r.fill)
                      /\ i' = i + 1
                      /\ pc' = IF i = Len(symbols) THEN "snapshot" ELSE "trade"
                      /\ err' = err
    /\ UNCHANGED <<runVars, t, bar, last_prices, states, ret, allocVars>>

\* an instrument of a run called directly: any target value
MultiTrade ==
    /\ mode = "multi" /\ pc = "trade" /\ i <= Len(symbols)
    /\ \E desired_raw \in MultiTargetValues : MultiTradeOn(desired_raw)

\* faulty variant: the bar ends without a snapshot
MultiSnapshotSkipped ==
    /\ mode = "multi" /\ pc = "snapshot"
    /\ pc' = "bar"
    /\ UNCHANGED <<runVars, t, bar, target, i, cash, positions, last_prices, fills, err,
                   ret, allocVars, states>>

\* the snapshot of the bar, after every symbol was processed
MultiSnapshot ==
    /\ mode \in {"multi", "portfolio"} /\ pc = "snapshot"
    /\ states' = Append(states, Snapshot(cash, positions, last_prices))
    /\ pc' = "bar"
    /\ UNCHANGED <<runVars, t, bar, target, i, cash, positions, last_prices, fills, err,
                   ret, allocVars>>

\* the index is exhausted: return fills, states
Return ==
    /\ pc = "bar"
    /\ mode = "engine" => t = Len(md_bars)
    /\ mode = "portfolio" => t = MaxBars
    /\ ret' = <<[fills |-> fills, states |-> states]>>
    /\ pc' = "returned"
    /\ UNCHANGED <<runVars, t, bar, target, i, cash, positions, last_prices, fills,
                   states, err, allocVars>>

(***************************************************************************)
(* NextBarExecutionModel.run                                               *)
(***************************************************************************)
\* one iteration of "for ts, row in bars.iterrows()" on the row and the
\* target.loc[ts] given: mark, size, trade, snapshot
SingleBarOn(row, desired_raw) ==
    /\ \E sym \in {symbols[1]} :
          \E lp \in {DictSet(last_prices, sym, row.Close)} :
          \E r \in {SingleBarStep(sym, row, desired_raw, t + 1, cash, positions, lp, params)} :
              /\ bar' = DictSet(EmptyDict, sym, row)
              /\ target' = DictSet(EmptyDict, sym, desired_raw)
              /\ last_prices' = lp
              /\ IF r.raised # "none"
                 THEN /\ pc' = "raised" /\ err' = r.raised
                      /\ UNCHANGED <<cash, positions, fills, states>>
                 ELSE /\ cash' = r.cash
                      /\ positions' = r.positions
                      /\ fills' = AppendFill(fills, r.fill)
                      /\ states' = Append(states, Snapshot(r.cash, r.positions, lp))
                      /\ pc' = "bar" /\ err' = err
    /\ t' = t + 1
    /\ i' = 1
    /\ UNCHANGED <<runVars, ret, allocVars>>

\* a bar of a run called directly: any row, any target value
SingleBar ==
    /\ mode = "single" /\ pc = "bar" /\ t < MaxBars
    /\ \E row \in Rows, desired_raw \in TargetValues : SingleBarOn(row, desired_raw)

(***************************************************************************)
(* BacktestEngine.run: generate_signals, then NextBarExecutionModel.run    *)
(***************************************************************************)
\* sig = self.strategy.generate_signals(md): the raw target series goes
\* through _apply_shift_and_fill
GenerateSignals ==
    /\ mode = "engine" /\ pc = "signals"
    /\ target_position' = ApplyShiftAndFill(raw_target, shift_for_execution)
    /\ pc' = "check"
    /\ UNCHANGED <<mode, params, symbols, initial_state, sig_index, md_bars, raw_target,
                   shift_for_execution, t, bar, target, i, cash, positions, last_prices,
                   fills, states, err, ret, allocVars>>

\* a bar of the run the engine started: the next row of md.bars and the
\* target_position of the same timestamp
EngineBar ==
    /\ mode = "engine" /\ pc = "bar" /\ t < Len(md_bars)
    /\ SingleBarOn(md_bars[t + 1], target_position[t + 1])

(***************************************************************************)
(* AllocationModel.allocate                                                *)
(***************************************************************************)
\* the first call of allocate(raw, budget) on an allocator with the fields cap, eps
AllocCall ==
    /\ mode = "alloc" /\ pc = "allocate"
    /\ a_out' = AllocateRun(a_in.policy, a_in.raw, a_in.budget, a_in.cap, a_in.eps)
    /\ a_in' = [a_in EXCEPT !.raw = RawAfterAllocate(@)]
    /\ pc' = "allocated"
    /\ UNCHANGED <<runVars, t, bar, target, i, cash, positions, last_prices, fills,
                   states, err, ret, a_again>>

\* a second call, on the same raw dict and budget, of an allocator with the
\* same cap and eps (the frozen dataclass has no other field)
AllocCallAgain ==
    /\ mode = "alloc" /\ pc = "allocated"
    /\ a_again' = AllocateRun(a_in.policy, a_in.raw, a_in.budget, a_in.cap, a_in.eps)
    /\ a_in' = [a_in EXCEPT !.raw = RawAfterAllocate(@)]
    /\ pc' = "allocated_again"
    /\ UNCHANGED <<runVars, t, bar, target, i, cash, positions, last_prices, fills,
                   states, err, ret, a_out>>

(***************************************************************************)
(* MultiBacktestEngine.run: allocation per timestamp, then the multi-asset *)
(* run on the weights                                                      *)
(***************************************************************************)
\* one iteration of "for ts in idx": raw intent of the timestamp, allocate,
\* append the weights
AllocateBar ==
    /\ mode = "portfolio" /\ pc = "weights"
    /\ \E k \in {Len(target_position) + 1} :
          /\ target_position' =
                 Append(target_position,
                        WeightsAt(a_in.policy, raw_target[k], a_in.budget, a_in.cap,
                                  a_in.eps))
          /\ a_in' = [a_in EXCEPT !.raw = RawIntent(raw_target[k])]
          /\ pc' = IF k = MaxBars THEN "check" ELSE "weights"
    /\ UNCHANGED <<mode, params, symbols, initial_state, sig_index, md_bars, raw_target,
                   shift_for_execution, t, bar, target, i, cash, positions, last_prices,
                   fills, states, err, ret, a_out, a_again>>

\* the mark pass of the run the engine started, on the rows of mmd
PortfolioMarkPass ==
    /\ mode = "portfolio" /\ pc = "bar" /\ t < MaxBars
    /\ \E rows \in [Symbols -> GoodRows] : MarkPassOn(rows)

\* an instrument of the run the engine started: its target is the weight the
\* engine stored for the timestamp
PortfolioTrade ==
    /\ mode = "portfolio" /\ pc = "trade" /\ i <= Len(symbols)
    /\ MultiTradeOn(target_position[t][symbols[i]])

(***************************************************************************)
(* Specifications                                                          *)
(***************************************************************************)
NextMulti == CheckIndex \/ MultiMarkPass \/ MultiTrade \/ MultiSnapshot \/ Return

NextSingle == CheckIndex \/ SingleBar \/ Return

NextExec == CheckIndex \/ MultiMarkPass \/ MultiTrade \/ MultiSnapshot \/ SingleBar \/ Return

NextAlloc == AllocCall \/ AllocCallAgain

NextEngine == GenerateSignals \/ CheckIndex \/ EngineBar \/ Return

NextPortfolio ==
    AllocateBar \/ CheckIndex \/ PortfolioMarkPass \/ PortfolioTrade \/ MultiSnapshot \/ Return

SpecMulti == InitMulti /\ [][NextMulti]_vars

SpecMultiHeld == InitMultiHeld /\ [][NextMulti]_vars

SpecSingle == InitSingle /\ [][NextSingle]_vars

SpecExec == (InitMulti \/ InitSingle) /\ [][NextExec]_vars

SpecAlloc == InitAlloc /\ [][NextAlloc]_vars

SpecEngine == InitEngine /\ [][NextEngine]_vars

SpecPortfolio == InitPortfolio /\ [][NextPortfolio]_vars

Spec == (InitMulti \/ InitSingle \/ InitAlloc) /\ [][NextExec \/ NextAlloc]_vars

(***************************************************************************)
(* Claims                                                                  *)
(***************************************************************************)
\* the snapshots run has emitted so far
Emitted == {states[k] : k \in 1..Len(states)}

NegEps == FNeg(params.eps)

\* C1: in a multi-asset run started with cash >= 0, with fee_bps >= 0,
\* slippage_bps >= 0 and targets in [0,1], the cash of every emitted snapshot
\* is >= -eps.
C1_SnapshotCashNotNegative ==
    mode = "multi" => \A s \in Emitted : FGe(s.cash, NegEps)

\* value of the holdings of a snapshot, from the snapshot's own fields
RECURSIVE HeldValue(_, _)
HeldValue(s, S) ==
    IF S = {} THEN Zero
    ELSE LET k == CHOOSE x \in S : TRUE
         IN  FAdd(FMul(s.positions[k], s.last_prices[k]), HeldValue(s, S \ {k}))

\* C2: in both execution models every emitted snapshot has
\* equity = cash + sum over held symbols of quantity x last mark price, taken
\* from the cash, positions and last_prices stored in that same snapshot.
C2_SnapshotEquity ==
    \A s \in Emitted :
        /\ DOMAIN s.positions \subseteq DOMAIN s.last_prices
        /\ FEq(s.equity, FAdd(s.cash, HeldValue(s, DOMAIN s.positions)))

\* C2 witness: a snapshot with cash left and a position marked at a price
\* other than 1 (equity differs from cash + quantity)
C2_Witness ==
    \E s \in Emitted : \E k \in DOMAIN s.positions :
        /\ s.last_prices[k] = <<2, 1>>
        /\ FGt(s.positions[k], Zero)
        /\ FGt(s.cash, Zero)

\* the weights allocate returned, its arguments
Weights == a_out.w

Returned == mode = "alloc" /\ pc = "allocated"

\* C3: for both allocators, every raw map and budget, with or without a cap:
\* every returned weight is >= 0, every returned weight is <= cap when a cap is
\* set, and the sum of the returned weights is <= budget + eps.  (Stated on
\* the budgets and caps that are not negative.)
C3_WeightsWithinBounds ==
    (Returned /\ FGe(a_in.budget, Zero) /\ (a_in.cap = NoCap \/ FGe(a_in.cap, Zero))) =>
        /\ \A k \in DOMAIN Weights : FGe(Weights[k], Zero)
        /\ a_in.cap # NoCap => \A k \in DOMAIN Weights : FLe(Weights[k], a_in.cap)
        /\ FLe(FSum(Weights, DOMAIN Weights), FAdd(a_in.budget, a_in.eps))

\* the raw map with every NaN, infinite, negative or unconvertible value
\* replaced by 0
TreatedAsZero(v) == v = Garbage \/ IsNaN(v) \/ ~IsFinite(v) \/ FLt(v, Zero)

ZeroedRaw(raw) == [k \in DOMAIN raw |-> IF TreatedAsZero(raw[k]) THEN Zero ELSE raw[k]]

\* C5: a raw value that is NaN, +infinity, -infinity, negative or not
\* convertible to float is treated exactly as 0: allocate(raw, budget) equals
\* allocate(raw', budget), raw' being raw with that value replaced by 0.
C5_SanitizedAsZero ==
    Returned =>
        Weights = Allocate(a_in.policy, ZeroedRaw(a_in.raw), a_in.budget, a_in.cap, a_in.eps)

\* C6: allocate never raises: for every raw map (NaN, infinite, negative and
\* garbage values included), budget and cap it returns a map with exactly the
\* keys of raw whose values are all finite numbers.
C6_FiniteWeightsForEveryKey ==
    Returned =>
        /\ DOMAIN Weights = DOMAIN a_in.raw
        /\ \A k \in DOMAIN Weights : IsFinite(Weights[k])

InBar == mode \in {"multi", "single"} /\ t >= 1

\* a target value that is a number outside [0,1]
OutOfRange(v) == ~IsNaN(v) /\ ~(FLe(Zero, v) /\ FLe(v, One))

\* the outcome r of processing one instrument is what this step did to the run
StepDid(r) ==
    IF r.raised # "none"
    THEN pc' = "raised" /\ err' = r.raised /\ cash' = cash
         /\ positions' = positions /\ fills' = fills /\ states' = states
    ELSE pc' # "raised" /\ err' = err /\ cash' = r.cash
         /\ positions' = r.positions /\ fills' = fills \o r.fill

\* a step that processes an instrument whose target is NaN does exactly what
\* it would have done with the target 0
NaNStepIsZeroStep ==
    /\ (mode = "multi" /\ pc = "trade") =>
          \A sym \in {symbols[i]} :
              IsNaN(target'[sym]) =>
                  StepDid(MultiSymbolStep(sym, bar[sym], Zero, t, cash, positions,
                                          last_prices, params))
    /\ (mode = "single" /\ pc = "bar" /\ t' = t + 1) =>
          \A sym \in {symbols[1]} :
              IsNaN(target'[sym]) =>
                  StepDid(SingleBarStep(sym, bar'[sym], Zero, t', cash, positions,
                                        last_prices', params))

\* a non-NaN target outside [0,1] has aborted the run at its bar: range error,
\* no trade of that instrument and no snapshot for the bar; a range error has
\* no other cause; an aborted run has returned nothing
OutOfRangeAborts ==
    InBar =>
        /\ \A sym \in DOMAIN target :
              OutOfRange(target[sym]) =>
                  /\ pc = "raised" /\ err = "target_fraction"
                  /\ Len(states) = t - 1
                  /\ \A k \in 1..Len(fills) : ~(fills[k].ts = t /\ fills[k].symbol = sym)
        /\ err = "target_fraction" => \E sym \in DOMAIN target : OutOfRange(target[sym])
        /\ pc = "raised" => ret = <<>>

\* C8: in both execution models a NaN target is treated as fraction 0 (the
\* step does what it does for the target 0), and a non-NaN target outside
\* [0,1] aborts the run at that bar with the range error: the value is never
\* clamped (no trade, no snapshot for that bar), and the caller receives no
\* fills and no snapshots, whatever was traded before.
C8_TargetResolution == []OutOfRangeAborts /\ [][NaNStepIsZeroStep]_vars

\* C8 witness: a multi-asset run aborted by an out-of-range target at its
\* second bar, after fills and a snapshot of the first bar, and after the
\* other instrument of that bar, held from the first bar, was sold on a NaN
\* target
C8_Witness ==
    /\ mode = "multi" /\ pc = "raised" /\ err = "target_fraction" /\ t = 2
    /\ Len(fills) > 1 /\ Len(states) = 1 /\ ret = <<>>
    /\ fills[Len(fills)].ts = 2 /\ FLt(fills[Len(fills)].qty, Zero)
    /\ \E sym \in DOMAIN target : target[sym] = <<3, 2>>
    /\ \E sym \in DOMAIN target : IsNaN(target[sym]) /\ fills[Len(fills)].symbol = sym

\* a symbol of the current bar whose Close is not positive
BadClose(sym) == sym \in DOMAIN bar /\ FLe(bar[sym].Close, Zero)

\* C9: a multi-asset bar in which an instrument has Close <= 0 aborts the run
\* with the Close error when that instrument is sized, whatever its target
\* fraction (0 included) and position, and no snapshot is emitted for that bar.
C9_MultiRejectsNonPositiveClose ==
    (mode = "multi" /\ t >= 1 /\ \E sym \in Symbols : BadClose(sym)) =>
        /\ pc \in {"trade", "raised"}
        /\ Len(states) = t - 1
        /\ \A sym \in DOMAIN target :
              BadClose(sym) =>
                 /\ pc = "raised"
                 /\ ~OutOfRange(target[sym]) => err = "close_price"

\* C9 witness: the run aborts on the Close of an instrument it holds and whose
\* target is 0
C9_Witness ==
    /\ mode = "multi" /\ pc = "raised" /\ err = "close_price"
    /\ \E sym \in DOMAIN target :
          BadClose(sym) /\ target[sym] = Zero /\ sym \in DOMAIN positions

\* C10: in the single-asset run a bar whose Close is <= 0 aborts the run with
\* an error during sizing: no desired quantity, trade or snapshot comes from
\* a non-positive Close.
C10_SingleRejectsNonPositiveClose ==
    (mode = "single" /\ t >= 1 /\ BadClose(SingleSymbol)) =>
        /\ pc = "raised"
        /\ Len(states) = t - 1
        /\ \A k \in 1..Len(fills) : fills[k].ts # t

\* what the instrument sym, given the target fraction tf, wants to trade in the
\* current state: tf x equity / Close - held quantity
WantedDelta(sym, tf) ==
    FSub(FDiv(FMul(tf, ComputeEquity(cash, positions, last_prices)), bar[sym].Close),
         DictGet(positions, sym, Zero))

\* what one unit costs a buyer of sym: fill price with slippage, plus the fee
UnitCost(sym) ==
    FMul(FMul(RawPrice(bar[sym], params), FAdd(One, SlipRate(params))),
         FAdd(One, FeeRate(params)))

\* the instrument at position n of the order is processed by this step, and
\* buys
BuyStep(n) ==
    /\ mode = "multi" /\ pc = "trade" /\ i = n /\ i' = n + 1
    /\ FGt(bar[symbols[n]].Close, Zero)
    /\ FGt(WantedDelta(symbols[n], TargetFraction(target'[symbols[n]])), params.eps)

\* the fills this step appended
NewFills == SubSeq(fills', Len(fills) + 1, Len(fills'))

\* C4: when two instruments of a bar both want to buy and the cash covers only
\* the buy of the one that comes first in symbols, the first is filled from the
\* cash first (in full), and the buy of the second is cut to
\* remaining_cash / (exec_price x (1 + fee_rate)), with no Fill at all when that
\* is within eps of zero; the order of symbols alone decides who is rationed.
C4_Step ==
    /\ BuyStep(1) =>
          \A s1 \in {symbols[1]} :
          \A d1 \in {WantedDelta(s1, TargetFraction(target'[s1]))} :
          \A cost \in {FMul(d1, UnitCost(s1))} :
              FLe(cost, cash) =>
                 /\ Len(NewFills) = 1
                 /\ NewFills[1].symbol = s1 /\ NewFills[1].qty = d1
                 /\ cash' = SnapCash(FSub(cash, cost), params.eps)
    /\ BuyStep(2) =>
          \A s2 \in {symbols[2]} :
          \A d2 \in {WantedDelta(s2, TargetFraction(target'[s2]))} :
          \A q \in {FDiv(cash, UnitCost(s2))} :
              FGt(FMul(d2, UnitCost(s2)), cash) =>
                 IF FGt(q, params.eps)
                 THEN /\ Len(NewFills) = 1
                      /\ NewFills[1].symbol = s2 /\ NewFills[1].qty = q
                      /\ cash' = Zero
                 ELSE /\ NewFills = <<>>
                      /\ cash' = cash /\ positions' = positions

\* C4: every step of the trade pass rations the cash in the order of symbols
C4_OrderDecidesRationing == [][C4_Step]_vars

\* C4 witness: with the order <<B, A>>, B bought first and A, which wanted
\* more, got what the remaining cash paid for: both filled in this bar, the
\* cash is used up and A is held below its target
C4_Witness ==
    /\ mode = "multi" /\ pc = "snapshot" /\ symbols = <<"B", "A">>
    /\ Len(fills) >= 2
    /\ LET f1 == fills[Len(fills) - 1]
           f2 == fills[Len(fills)]
       IN  /\ f1.ts = t /\ f1.symbol = "B" /\ FGt(f1.qty, Zero)
           /\ f2.ts = t /\ f2.symbol = "A" /\ FGt(f2.qty, Zero)
    /\ cash = Zero
    /\ params.fee_bps > 0
    /\ FLt(FMul(DictGet(positions, "A", Zero), bar["A"].Close),
           FMul(TargetFraction(target["A"]), ComputeEquity(cash, positions, last_prices)))

\* C11: alignment is checked before any bar is processed: when the target
\* index differs from the bar index (single-asset), or a symbol of the bar set
\* has no signal or one with another index (multi-asset), run raises the
\* alignment error with no price marked, no trade, no fill and no snapshot;
\* and the alignment error has no other cause.
C11_AlignmentCheckedFirst ==
    /\ (mode \in {"multi", "single"} /\ sig_index # "equal") =>
          /\ pc \in {"check", "raised"}
          /\ pc = "raised" => err = "alignment"
          /\ t = 0 /\ bar = EmptyDict /\ target = EmptyDict
          /\ last_prices = initial_state.last_prices
          /\ cash = initial_state.cash /\ positions = initial_state.positions
          /\ fills = <<>> /\ states = <<>> /\ ret = <<>>
    /\ err = "alignment" => sig_index # "equal"

\* C11 witness: a multi-asset run that raised at its index check because a
\* symbol of the bar set has no signal
C11_Witness ==
    /\ mode = "multi" /\ sig_index = "missing"
    /\ pc = "raised" /\ err = "alignment" /\ t = 0

\* between bars and at the return there is one snapshot per bar taken; inside a
\* bar the snapshot of that bar is still to come; a returned run handed its
\* caller exactly the fills and states it built
OneSnapshotPerBar ==
    mode \in {"multi", "single"} =>
        /\ pc \in {"bar", "returned"} => Len(states) = t
        /\ pc \in {"trade", "snapshot"} => Len(states) = t - 1
        /\ pc = "returned" =>
              /\ ret = <<[fills |-> fills, states |-> states]>>
              /\ Len(ret[1].states) = t
        /\ pc # "returned" => ret = <<>>

\* a step that changes states appends one snapshot, the one of the bar being
\* processed (it carries that bar's Close marks), and in the multi-asset run
\* only after every instrument of the bar was processed
SnapshotAppendedAtBarEnd ==
    states' # states =>
        /\ Len(states') = Len(states) + 1
        /\ SubSeq(states', 1, Len(states)) = states
        /\ Len(states') = t'
        /\ \A sym \in DOMAIN bar' :
              states'[Len(states')].last_prices[sym] = bar'[sym].Close
        /\ mode = "multi" =>
              /\ pc = "snapshot" /\ i = Len(symbols) + 1
              /\ DOMAIN target = Symbols

\* how far run has got: the index check, then per bar the mark pass, the
\* symbols in order, the snapshot; a return or a raise ends it
StepsPerBar == Len(symbols) + 3

RunRank ==
    IF pc = "check" THEN 0
    ELSE IF pc = "bar" THEN 1 + t * StepsPerBar
    ELSE IF pc = "trade" THEN 1 + (t - 1) * StepsPerBar + i
    ELSE IF pc = "snapshot" THEN 1 + (t - 1) * StepsPerBar + Len(symbols) + 1
    ELSE 2 + MaxBars * StepsPerBar

\* a run that has neither returned nor raised is at a point of the code from
\* which it goes on, and it is never further than the end of its index
RunGoesOn ==
    mode \in {"multi", "single"} =>
        /\ RunRank <= 2 + MaxBars * StepsPerBar
        /\ pc \notin {"returned", "raised"} =>
              \/ pc = "check"
              \/ pc = "bar" /\ t <= MaxBars
              \/ mode = "multi" /\ pc = "trade" /\ i \in 1..Len(symbols)
              \/ mode = "multi" /\ pc = "snapshot"

\* every step takes run further
RunAdvances == RunRank' > RunRank

\* C12: every run terminates (each step takes it further through a finite
\* index, until it returns or raises), and a successful run returns exactly one
\* snapshot per input bar, in bar order; in the multi-asset model the snapshot
\* of a bar is emitted once, after every instrument was processed for that
\* bar, never one per instrument.
C12_OneSnapshotPerBar ==
    /\ [](OneSnapshotPerBar /\ RunGoesOn)
    /\ [][SnapshotAppendedAtBarEnd /\ RunAdvances]_vars

\* C12 witness: a multi-asset run that returned two snapshots for two bars,
\* with more fills than bars
C12_Witness ==
    /\ mode = "multi" /\ pc = "returned" /\ t = 2
    /\ Len(ret[1].states) = 2 /\ Len(ret[1].fills) > 2

\* C13: an emitted snapshot is a frozen copy: no later step (marking prices,
\* trading, dropping positions) changes the cash, positions, last_prices or
\* equity read in a snapshot emitted earlier, and no step changes what the
\* caller reads in its initial_state.
C13_Step ==
    /\ \A k \in 1..Len(states) :
          /\ k <= Len(states')
          /\ ReadState(states'[k], SnapshotCopies, positions', last_prices')
               = ReadState(states[k], SnapshotCopies, positions, last_prices)
    /\ ReadState(initial_state', EntryCopies, positions', last_prices')
         = ReadState(initial_state, EntryCopies, positions, last_prices)

\* C13: every step leaves the emitted snapshots and initial_state as they were
C13_SnapshotsFrozen == [][C13_Step]_vars

\* C13 witness: a single-asset run started from a state that holds a
\* position, after two bars: the working positions and marks have moved away
\* from those of the first snapshot and from those of initial_state
C13_Witness ==
    /\ mode = "single" /\ Len(states) = 2
    /\ initial_state.positions # EmptyDict
    /\ positions # states[1].positions /\ last_prices # states[1].last_prices
    /\ positions # initial_state.positions /\ last_prices # initial_state.last_prices
    /\ states[1].positions # initial_state.positions

\* the step appended one Fill
Filled == Len(fills') = Len(fills) + 1

LastFill == fills'[Len(fills')]

\* the price of the configured fill column in the bar of the new Fill
FillColumnPrice ==
    IF params.fill_price = "open" THEN bar'[LastFill.symbol].Open
    ELSE bar'[LastFill.symbol].Close

\* price and fee of the new Fill: the fill column price moved by the slippage
\* against the trader, the fee on the traded notional
FillPricedAndCharged ==
    \A f \in {LastFill} : \A raw \in {FillColumnPrice} :
        /\ FGt(f.qty, Zero) =>
              f.price = FMul(raw, FAdd(One, Rat(params.slippage_bps, BpsPerUnit)))
        /\ FLt(f.qty, Zero) =>
              f.price = FMul(raw, FSub(One, Rat(params.slippage_bps, BpsPerUnit)))
        /\ f.qty # Zero
        /\ f.fee = FMul(FMul(FAbs(f.qty), f.price), Rat(params.fee_bps, BpsPerUnit))
        /\ FGe(f.fee, Zero)

\* cash less what the new Fill cost: qty x price + fee
CashLessFill == FSub(cash, FAdd(FMul(LastFill.qty, LastFill.price), LastFill.fee))

\* C14 as stated: for every Fill of either model the price is the fill column
\* price x (1 + slippage) for a buy and x (1 - slippage) for a sell, the fee
\* is |qty| x price x fee_bps/10000, and the trade changes cash by exactly
\* -(qty x price + fee).
C14_CashChangesExactly ==
    [][Filled => (FillPricedAndCharged /\ cash' = CashLessFill)]_vars

\* C14, amended: price and fee as stated; the trade changes cash by
\* -(qty x price + fee), after which the multi-asset model sets a cash
\* within eps of zero to exactly 0 (the single-asset model does not).
C14_FillArithmetic ==
    [][Filled =>
        /\ FillPricedAndCharged
        /\ cash' = IF mode = "multi" /\ FLt(FAbs(CashLessFill), params.eps)
                   THEN Zero ELSE CashLessFill]_vars

\* C14 witness: a sell that paid slippage and a fee (cash after it is below
\* what the sale brought in at the fill column price), in a multi-asset run
\* where a buy was filled too
C14_Witness ==
    /\ mode = "multi" /\ Len(fills) >= 2
    /\ params.slippage_bps > 0 /\ params.fee_bps > 0
    /\ \E k \in 1..Len(fills) : FGt(fills[k].qty, Zero) /\ FGt(fills[k].fee, Zero)
    /\ FLt(fills[Len(fills)].qty, Zero) /\ FGt(fills[Len(fills)].fee, Zero)
    /\ fills[Len(fills)].ts = t
    /\ FLt(fills[Len(fills)].price, bar[fills[Len(fills)].symbol].Open)

\* a bar of the single-asset run in which a trade occurred
SingleTraded == mode = "single" /\ pc = "bar" /\ Filled

\* target_fraction x (pre-trade equity marked at the bar's Close) / Close
SizedByClose ==
    FDiv(FMul(TargetFraction(target'[SingleSymbol]),
              ComputeEquity(cash, positions, last_prices')),
         bar'[SingleSymbol].Close)

\* what the bar would have left of the positions under the fill column fp
PositionsUnderFill(fp) ==
    SingleBarStep(SingleSymbol, bar'[SingleSymbol], target'[SingleSymbol], t', cash,
                  positions, last_prices', [params EXCEPT !.fill_price = fp]).positions

\* C15 as stated: after a single-asset bar in which a trade occurs the held
\* quantity equals target_fraction x (pre-trade equity marked at that bar's
\* Close) / Close, and is the same for fill_price = open and = close.
C15_HeldEqualsSized ==
    [][SingleTraded =>
        /\ last_prices'[SingleSymbol] = bar'[SingleSymbol].Close
        /\ DictGet(positions', SingleSymbol, Zero) = SizedByClose
        /\ \A fp \in {"open", "close"} : PositionsUnderFill(fp) = positions']_vars

\* C15, amended: after a single-asset bar in which a trade occurs the held
\* quantity equals target_fraction x (pre-trade equity marked at that bar's
\* Close) / Close, unless that quantity is within eps of zero, in which case
\* the position entry is dropped (nothing is held); and what is held is the
\* same for fill_price = open and = close.
C15_SizedByClose ==
    [][SingleTraded =>
        /\ last_prices'[SingleSymbol] = bar'[SingleSymbol].Close
        /\ IF FLt(FAbs(SizedByClose), params.eps)
           THEN SingleSymbol \notin DOMAIN positions'
           ELSE /\ SingleSymbol \in DOMAIN positions'
                /\ positions'[SingleSymbol] = SizedByClose
        /\ \A fp \in {"open", "close"} : PositionsUnderFill(fp) = positions']_vars

\* C15 witness: a single-asset run that fills at the Open, which traded in
\* its second bar on a target of 1/2 and holds a position worth less than
\* half of its equity at the Close, the fill having cost slippage and fee
C15_Witness ==
    /\ mode = "single" /\ pc = "bar" /\ t = 2
    /\ params.fill_price = "open" /\ params.fee_bps > 0
    /\ Len(fills) > 0 /\ fills[Len(fills)].ts = 2
    /\ target[SingleSymbol] = <<1, 2>>
    /\ SingleSymbol \in DOMAIN positions /\ FGt(positions[SingleSymbol], Zero)
    /\ bar[SingleSymbol].Open # bar[SingleSymbol].Close
    /\ FLt(FMul(positions[SingleSymbol], last_prices[SingleSymbol]),
           FMul(<<1, 2>>, ComputeEquity(cash, positions, last_prices)))

\* the desired quantity of sym, sized on the equity marked at lp_, is within
\* eps of the quantity held: its target fraction equals its current weight
AtTargetWeight(sym, desired_raw, row, lp_) ==
    /\ row.Close # Zero
    /\ FLe(FAbs(FSub(FDiv(FMul(TargetFraction(desired_raw),
                               ComputeEquity(cash, positions, lp_)),
                          row.Close),
                     DictGet(positions, sym, Zero))),
           params.eps)

\* a step that processes an instrument standing at its target weight emits
\* no Fill, and leaves cash and positions alone
NoTradeAtTargetWeight ==
    /\ (mode = "multi" /\ pc = "trade") =>
          \A sym \in {symbols[i]} :
              AtTargetWeight(sym, target'[sym], bar[sym], last_prices) =>
                  fills' = fills /\ cash' = cash /\ positions' = positions
    /\ (mode = "single" /\ pc = "bar" /\ t' = t + 1) =>
          \A sym \in {symbols[1]} :
              AtTargetWeight(sym, target'[sym], bar'[sym], last_prices') =>
                  fills' = fills /\ cash' = cash /\ positions' = positions

\* every Fill emitted so far trades more than eps
FillsExceedEps == \A k \in 1..Len(fills) : FGt(FAbs(fills[k].qty), params.eps)

\* C16: no-trade property: an instrument whose target fraction equals its
\* current weight at a bar (desired quantity within eps of the held one) gets
\* no Fill at that bar, hence none in a run where this is so on every bar; and
\* every Fill that is emitted has |qty| > eps.
C16_NoTrade == []FillsExceedEps /\ [][NoTradeAtTargetWeight]_vars

\* C16 witness: the second bar of a multi-asset run ended without a Fill,
\* with A, bought in the first bar, held at its non-zero target weight
C16_Witness ==
    /\ mode = "multi" /\ pc = "snapshot" /\ t = 2
    /\ Len(fills) > 0
    /\ \A k \in 1..Len(fills) : fills[k].ts = 1
    /\ \E k \in 1..Len(fills) : fills[k].symbol = "A" /\ FGt(fills[k].qty, Zero)
    /\ "A" \in DOMAIN positions /\ FGt(positions["A"], Zero)
    /\ target["A"] \in {<<1, 2>>, One}
    /\ AtTargetWeight("A", target["A"], bar["A"], last_prices)

\* C17: ProportionalAllocator without a cap and with budget > 0: when the sum
\* of the sanitized raw values is <= eps every weight is 0; otherwise
\* weight_i = sanitized_i / sum(sanitized) x budget for every instrument, and
\* the weights sum to exactly the budget.  (Sanitized: NaN, infinite, negative
\* and unconvertible values count as 0.)
C17_ProportionalWeights ==
    (Returned /\ a_in.policy = "proportional" /\ a_in.cap = NoCap
              /\ FGt(a_in.budget, Zero)) =>
        \A clean \in {ZeroedRaw(a_in.raw)} : \A s \in {FSum(clean, DOMAIN clean)} :
            /\ DOMAIN Weights = DOMAIN a_in.raw
            /\ IF FLe(s, a_in.eps)
               THEN \A k \in DOMAIN Weights : Weights[k] = Zero
               ELSE /\ \A k \in DOMAIN Weights :
                         Weights[k] = FMul(FDiv(clean[k], s), a_in.budget)
                    /\ FSum(Weights, DOMAIN Weights) = a_in.budget

\* C18: EqualWeightAllocator without a cap and with budget > 0: every
\* instrument whose sanitized raw value exceeds eps gets budget / |active|,
\* every other instrument gets 0, and with no active instrument all weights
\* are 0.  (Sanitized: NaN, infinite, negative and unconvertible values count
\* as 0.)
C18_EqualWeights ==
    (Returned /\ a_in.policy = "equal" /\ a_in.cap = NoCap /\ FGt(a_in.budget, Zero)) =>
        \A clean \in {ZeroedRaw(a_in.raw)} :
        \A active \in {{k \in DOMAIN clean : FGt(clean[k], a_in.eps)}} :
            /\ DOMAIN Weights = DOMAIN a_in.raw
            /\ \A k \in DOMAIN Weights :
                  Weights[k] = IF k \in active
                               THEN FDiv(a_in.budget, <<Cardinality(active), 1>>)
                               ELSE Zero

\* the capped proportional call cannot place the budget: cap c > 0, every
\* sanitized raw value positive, c x (number of instruments) < budget
StuckAtCap ==
    /\ Returned /\ a_in.policy = "proportional"
    /\ a_in.cap # NoCap /\ FGt(a_in.cap, Zero)
    /\ \A k \in DOMAIN a_in.raw : FGt(ZeroedRaw(a_in.raw)[k], Zero)
    /\ FLt(FMul(a_in.cap, <<Cardinality(DOMAIN a_in.raw), 1>>), a_in.budget)

C20_OrderIndependent ==
    (Returned /\ a_in.policy = "proportional" /\ a_in.cap = NoCap) =>
        \A ord1, ord2 \in InsertionOrders(DOMAIN a_in.raw) :
            ProportionalInOrder(ord1, a_in.raw, a_in.budget, a_in.eps)
              = ProportionalInOrder(ord2, a_in.raw, a_in.budget, a_in.eps)

Degenerate ==
    \/ a_in.cap # NoCap /\ FLe(a_in.cap, Zero) /\ FGt(a_in.budget, Zero)
    \/ FLe(a_in.budget, Zero)

\* C22: degenerate allocation configurations yield all-zero weights and never
\* an error: for either allocator, a cap <= 0 with a positive budget returns
\* weight 0 for every instrument, and a budget <= 0 returns weight 0 for every
\* instrument, whatever the raw values and the cap.
C22_DegenerateIsZero ==
    (Returned /\ Degenerate) =>
        /\ ~DividesByZero(a_in.policy, a_in.raw, a_in.budget, a_in.eps)
        /\ DOMAIN Weights = DOMAIN a_in.raw
        /\ \A k \in DOMAIN Weights : Weights[k] = Zero

\* C22 witness: a negative cap, a positive budget and raw values that are
\* all positive and unequal, on the proportional allocator
C22_Witness ==
    /\ Returned /\ a_in.policy = "proportional"
    /\ a_in.cap # NoCap /\ FLt(a_in.cap, Zero) /\ FGt(a_in.budget, Zero)
    /\ \A k \in DOMAIN a_in.raw : a_in.raw[k] \in {<<1, 16>>, One, <<10, 1>>}
    /\ \E j, k \in DOMAIN a_in.raw : a_in.raw[j] # a_in.raw[k]
    /\ \A k \in DOMAIN Weights : Weights[k] = Zero

\* last_prices after the Closes of the rows in b were marked
MarkedAt(lp_, b) ==
    [k \in (DOMAIN lp_) \cup (DOMAIN b) |-> IF k \in DOMAIN b THEN b[k].Close ELSE lp_[k]]

\* what a step of run leaves is fixed by what run held before the step and by
\* the row and the target of the bar being processed (bar', target'), and by
\* nothing else of the input
StepReadsCurrentBar ==
    /\ (mode = "multi" /\ pc = "bar" /\ pc' = "trade") =>
          /\ last_prices' = MarkedAt(last_prices, bar')
          /\ cash' = cash /\ positions' = positions
          /\ fills' = fills /\ states' = states
    /\ (mode = "multi" /\ pc = "trade") =>
          /\ bar' = bar /\ last_prices' = last_prices /\ states' = states
          /\ \A sym \in {symbols[i]} :
                StepDid(MultiSymbolStep(sym, bar[sym], target'[sym], t, cash, positions,
                                        last_prices, params))
    /\ (mode = "multi" /\ pc = "snapshot") =>
          /\ states' = Append(states, Snapshot(cash, positions, last_prices))
          /\ cash' = cash /\ positions' = positions
          /\ fills' = fills /\ last_prices' = last_prices
    /\ (mode = "single" /\ pc = "bar" /\ t' = t + 1) =>
          /\ last_prices' = MarkedAt(last_prices, bar')
          /\ \A sym \in {symbols[1]} :
                StepDid(SingleBarStep(sym, bar'[sym], target'[sym], t', cash, positions,
                                      last_prices', params))
          /\ pc' # "raised" =>
                states' = Append(states, Snapshot(cash', positions', last_prices'))

\* what run emitted before a step is still there after it, and a Fill the
\* step emits carries the timestamp of the bar being processed
EmittedStays ==
    /\ Len(fills') >= Len(fills) /\ SubSeq(fills', 1, Len(fills)) = fills
    /\ Len(states') >= Len(states) /\ SubSeq(states', 1, Len(states)) = states
    /\ \A k \in (Len(fills) + 1)..Len(fills') : fills'[k].ts = t'

\* by bar t run has emitted Fills of the bars 1..t only, and at most t snapshots
EmittedUpToNow ==
    mode \in {"multi", "single"} =>
        /\ \A k \in 1..Len(fills) : fills[k].ts \in 1..t
        /\ Len(states) <= t

Lagged == mode = "engine" /\ pc # "signals" /\ shift_for_execution >= 1

\* the target of every bar is the raw target of shift_for_execution bars
\* earlier, and 0 on the first shift_for_execution bars; the bar being
\* processed consumed the one of its timestamp
LagApplied ==
    Lagged =>
        /\ Len(target_position) = Len(raw_target)
        /\ \A n \in 1..Len(target_position) :
              target_position[n] = IF n <= shift_for_execution THEN Zero
                                   ELSE raw_target[n - shift_for_execution]
        /\ t >= 1 => target[SingleSymbol] = target_position[t]

\* the scenario: closes 100, 110, 105, raw target 0, 1, 1, a lag of one bar
LagScenario ==
    /\ Lagged /\ shift_for_execution = 1
    /\ md_bars = ScenarioBars
    /\ raw_target[1] = Zero /\ raw_target[2] = One /\ raw_target[3] = One

\* in the scenario no Fill is emitted at the bars 0 and 1; the first Fill is
\* the one of bar index 2 (the third bar), a buy of equity / Close of that bar
\* (the equity is the opening cash, nothing being held), at that bar's fill
\* column price plus slippage
FirstFillAtThirdBar ==
    LagScenario =>
        /\ t < 3 => fills = <<>>
        /\ t >= 3 =>
              /\ Len(fills) >= 1
              /\ fills[1].ts = 3
              /\ fills[1].qty = FDiv(FMul(One, initial_state.cash), md_bars[3].Close)
              /\ fills[1].price
                   = FMul(RawPrice(md_bars[3], params), FAdd(One, SlipRate(params)))

\* C24: execution lag: with shift_for_execution = k >= 1 the target consumed
\* at bar t is the strategy's raw target of bar t - k, and 0 on the first k
\* bars; for the raw target 0, 1, 1 with a one-bar lag on the closes 100, 110,
\* 105 the run emits no Fill at the bars 0 and 1 and its first Fill at bar
\* index 2, sized from the equity marked at that bar's Close and priced from
\* that bar's fill column.
C24_ExecutionLag == LagApplied /\ FirstFillAtThirdBar

\* C24 witness: the scenario run to its return, filling at the Open: one
\* Fill, at the third bar
C24_Witness ==
    /\ LagScenario /\ pc = "returned" /\ t = 3
    /\ params.fill_price = "open" /\ params.slippage_bps > 0
    /\ Len(fills) = 1 /\ fills[1].ts = 3
    /\ Len(states) = 3 /\ states[2].positions = EmptyDict

\* the place of sym in the caller's symbols
SymPos(sym) == CHOOSE n \in 1..Len(symbols) : symbols[n] = sym

\* the Fills are in bar order; two Fills of one bar are of different
\* instruments and stand in the order of symbols
FillsOrdered ==
    mode \in {"multi", "single"} =>
        \A j, k \in 1..Len(fills) :
            j < k =>
                /\ fills[j].ts <= fills[k].ts
                /\ fills[j].ts = fills[k].ts =>
                      /\ fills[j].symbol # fills[k].symbol
                      /\ SymPos(fills[j].symbol) < SymPos(fills[k].symbol)

\* a step leaves the Fills emitted so far as they are and where they are, and
\* adds at most one, at the end; the caller is handed the list as it was built
FillsAppendOnly ==
    /\ Len(fills') \in {Len(fills), Len(fills) + 1}
    /\ SubSeq(fills', 1, Len(fills)) = fills
    /\ ret' # ret => ret'[1].fills = fills

\* C25: the fill list is append-only and ordered: at most one Fill per
\* (instrument, bar), Fills in non-decreasing timestamp order, within one bar
\* of a multi-asset run in the order of symbols; a Fill once emitted is never
\* changed or removed by later bars.
C25_FillsAppendOnlyOrdered == []FillsOrdered /\ [][FillsAppendOnly]_vars

\* C25 witness: a multi-asset run on the symbols B, A returned Fills of two
\* bars, two of them in the second bar: B's, then A's
C25_Witness ==
    /\ mode = "multi" /\ pc = "returned" /\ symbols = <<"B", "A">>
    /\ Len(fills) >= 3
    /\ fills[1].ts = 1
    /\ fills[Len(fills) - 1].ts = 2 /\ fills[Len(fills) - 1].symbol = "B"
    /\ fills[Len(fills)].ts = 2 /\ fills[Len(fills)].symbol = "A"

\* every bar up to the k-th snapshot had a positive Close
ClosesPositiveUpTo(k) ==
    \A j \in 1..k : FGt(states[j].last_prices[SingleSymbol], Zero)

\* C26: in the single-asset model started with cash >= 0 and no position,
\* with every target fraction in [0,1], fee_bps >= 0 and slippage_bps >= 0,
\* the cash of every snapshot is >= -eps, for either fill column (stated on
\* the bars whose Close is positive).
C26_SingleCashNotNegative ==
    (mode = "single" /\ initial_state = EngineInitialState) =>
        \A k \in 1..Len(states) :
            ClosesPositiveUpTo(k) => FGe(states[k].cash, NegEps)

\* the Closes of the current bar, per symbol of the bar set
BarCloses == [k \in DOMAIN bar |-> bar[k].Close]

\* while the instruments of a bar are sized and traded, and when its snapshot
\* is taken, every symbol of the bar set is marked at its Close of that bar
MarkedBeforeSizing ==
    (mode = "multi" /\ pc \in {"trade", "snapshot"}) =>
        /\ DOMAIN bar = Symbols
        /\ \A sym \in Symbols :
              sym \in DOMAIN last_prices /\ last_prices[sym] = bar[sym].Close

\* a sale (which no cash limit cuts) trades the quantity sized on the equity
\* with every holding marked at its Close of the current bar
SizedOnBarCloses ==
    (mode = "multi" /\ pc = "trade" /\ Filled) =>
        \A sym \in {symbols[i]} : \A f \in {LastFill} :
            FLt(f.qty, Zero) =>
                f.qty = FSub(FDiv(FMul(TargetFraction(target'[sym]),
                                       ComputeEquity(cash, positions, BarCloses)),
                                  bar[sym].Close),
                             DictGet(positions, sym, Zero))

\* C27: mark pass before trade pass: in the multi-asset model, when an
\* instrument is sized in bar t, last_prices of every symbol of the bar set
\* already equals that symbol's Close of bar t, whatever the processing
\* order; no instrument is sized with another instrument's mark of bar t-1.
C27_MarkedBeforeSizing == []MarkedBeforeSizing /\ [][SizedOnBarCloses]_vars

\* C27 witness: in the second bar the first instrument of the order is sold
\* down while the other one, held from the first bar and processed after it,
\* has a Close that differs from its Close of the first bar
C27_Witness ==
    /\ mode = "multi" /\ pc = "trade" /\ t = 2 /\ i = 2 /\ Len(states) = 1
    /\ symbols[2] \in DOMAIN positions
    /\ states[1].last_prices[symbols[2]] # last_prices[symbols[2]]
    /\ Len(fills) > 0
    /\ fills[Len(fills)].ts = 2 /\ fills[Len(fills)].symbol = symbols[1]
    /\ FLt(fills[Len(fills)].qty, Zero)
    /\ symbols[1] \in DOMAIN positions

\* C28: for EqualWeightAllocator and ProportionalAllocator with a cap set, an
\* instrument whose sanitized raw value is 0 receives weight 0: water-filling
\* redistributes the shortfall only among the instruments that had a
\* positive weight before capping.
C28_ZeroRawStaysZero ==
    (Returned /\ a_in.cap # NoCap) =>
        \A k \in DOMAIN a_in.raw :
            CleanValue(a_in.raw[k]) = Zero => Weights[k] = Zero

\* a bar of the single-asset run that was processed to its snapshot
SingleBarDone == mode = "single" /\ pc = "bar" /\ pc' = "bar" /\ t' = t + 1

\* the target of the bar differs from the one of the bar before (NaN counts
\* as 0); at the first bar: what the target asks for differs from the holding
TargetChanged ==
    IF t >= 1
    THEN TargetFraction(target'[SingleSymbol]) # TargetFraction(target[SingleSymbol])
    ELSE ~AtTargetWeight(SingleSymbol, target'[SingleSymbol], bar'[SingleSymbol],
                         last_prices')

\* the bar is an ordinary one: its Close and the Close before it are
\* positive, and so far the run has kept its cash and its holding non-negative
OrdinaryBar ==
    /\ FGt(bar'[SingleSymbol].Close, Zero)
    /\ \A k \in DOMAIN last_prices : FGt(last_prices[k], Zero)
    /\ FGe(cash, Zero)
    /\ FGe(DictGet(positions, SingleSymbol, Zero), Zero)

CappedReturned == Returned /\ a_in.cap # NoCap /\ a_out.looped /\ FGt(a_in.cap, Zero)

\* the weights sum to at least budget - eps
ShortfallExhausted ==
    FGe(FSum(Weights, DOMAIN Weights), FSub(a_in.budget, a_in.eps))

\* no instrument has a weight below cap - eps
NoneCanAbsorb ==
    \A k \in DOMAIN Weights : ~FLt(Weights[k], FSub(a_in.cap, a_in.eps))

\* C30: when _cap_and_redistribute returns with cap > 0, either the sum of the
\* weights is >= budget - eps or no instrument has a weight below cap - eps;
\* it never stops, through the no-change break (or any other exit), with both
\* a shortfall larger than eps and an instrument still below its cap; the
\* no-change break leaves the shortfall exhausted.
C30_StopsOnlyWhenDone ==
    CappedReturned =>
        /\ a_out.broke
        /\ ShortfallExhausted \/ NoneCanAbsorb
        /\ a_out.exit = "not changed" => ShortfallExhausted

\* C30 witness: the loop ended through its no-change break: the pass raised
\* the weights that were below cap - eps, none by more than eps, and the sum
\* came up to the budget
C30_Witness ==
    /\ CappedReturned /\ a_out.exit = "not changed"
    /\ ShortfallExhausted
    /\ \A k \in DOMAIN a_in.raw : a_in.raw[k] \in {<<1, 16>>, One, <<10, 1>>}
    /\ \E k \in DOMAIN Weights : FLt(Weights[k], a_in.cap)

\* C31: the multi-asset model is long-only: started with cash >= 0 and no
\* negative position, with targets in [0,1], every position quantity of
\* every snapshot is >= 0.
C31_MultiLongOnly ==
    mode = "multi" =>
        \A s \in Emitted : \A k \in DOMAIN s.positions : FGe(s.positions[k], Zero)

\* C32: the single-asset model is long-only and unlevered: started with
\* cash >= 0 and no position, with targets in [0,1] and positive prices, the
\* held quantity and the equity of every snapshot are >= 0, for any price
\* path.
C32_SingleLongOnlyUnlevered ==
    (mode = "single" /\ initial_state = EngineInitialState) =>
        \A k \in 1..Len(states) :
            ClosesPositiveUpTo(k) =>
                /\ FGe(DictGet(states[k].positions, SingleSymbol, Zero), Zero)
                /\ FGe(states[k].equity, Zero)

\* the snapshot of the bar just finished
BarSnapshot == states[Len(states)]

\* a bar of either run has just ended with its snapshot
BarEnded == InBar /\ pc = "bar" /\ Len(states) = t

\* every instrument whose target in the bar just finished was 0 or NaN has no
\* position entry in the bar's snapshot
ZeroTargetsFlat ==
    BarEnded =>
        \A sym \in DOMAIN target :
            (FGt(bar[sym].Close, Zero) /\ (IsNaN(target[sym]) \/ target[sym] = Zero)) =>
                sym \notin DOMAIN BarSnapshot.positions

\* no snapshot holds an entry whose quantity is within eps of zero
NoDustEntries ==
    InBar => \A s \in Emitted : \A k \in DOMAIN s.positions :
                 FGt(FAbs(s.positions[k]), params.eps)

\* C33: a target of 0 (or NaN) always flattens, in both models: the bar's
\* snapshot has no position entry for that instrument, whatever the cash and
\* the order of the instruments; and no snapshot contains an entry whose
\* quantity is within eps of zero.
C33_ZeroTargetFlattens == ZeroTargetsFlat /\ NoDustEntries

\* a bar of the single-asset run is processed by this step
SingleStep == mode = "single" /\ pc = "bar" /\ t' = t + 1

\* the delta the bar of this step wants for sym, sized on the bar's Close
StepDelta(sym) ==
    FSub(FDiv(FMul(TargetFraction(target'[sym]),
                   ComputeEquity(cash, positions, last_prices')),
              bar'[sym].Close),
         DictGet(positions, sym, Zero))

\* the buy clamp does not bind in this step:
\* delta x exec_price x (1 + fee_rate) <= cash for a buy
ClampIdle(sym) ==
    \A d \in {StepDelta(sym)} :
        FGt(d, Zero) =>
            FLe(FMul(FMul(d, ExecPrice(RawPrice(bar'[sym], params), d, SlipRate(params))),
                     FAdd(One, FeeRate(params))),
                cash)

\* the trade of this step, if any, does not leave cash within eps of zero
CashClear == Filled => FGe(FAbs(cash'), params.eps)

\* the multi-asset loop, run on the one-instrument bar set of this step from
\* the same state, marks, raises, trades and snapshots as this step did
MultiDoesTheSame(sym) ==
    \A m \in {MultiSymbolStep(sym, bar'[sym], target'[sym], t', cash, positions,
                              last_prices', params)} :
        /\ last_prices' = [k \in (DOMAIN last_prices) \cup {sym} |->
                              IF k = sym THEN bar'[sym].Close ELSE last_prices[k]]
        /\ StepDid(m)
        /\ IF m.raised = "none"
           THEN states' = Append(states, Snapshot(m.cash, m.positions, last_prices'))
           ELSE states' = states

\* C34: the multi-asset model generalizes the single-asset one: on a
\* one-instrument bar set, with the same targets, parameters and state and a
\* positive Close, a bar of the multi-asset run produces the same Fill and
\* snapshot as the bar of the single-asset run, whenever the buy clamp does
\* not bind and cash does not land within eps of zero.
C34_MultiGeneralizesSingle ==
    [][SingleStep =>
        \A sym \in {symbols[1]} :
            (FGt(bar'[sym].Close, Zero) /\ ClampIdle(sym) /\ CashClear) =>
                MultiDoesTheSame(sym)]_vars

\* C34 witness: a single-asset run of two bars with positive Closes that
\* bought within its cash in the first, paying a fee, and sold in the second,
\* cash staying clear of zero, the second bar being one that fills at an Open
\* different from its Close
C34_Witness ==
    /\ mode = "single" /\ pc = "bar" /\ t = 2 /\ Len(fills) = 2 /\ Len(states) = 2
    /\ initial_state = EngineInitialState
    /\ ClosesPositiveUpTo(2)
    /\ params.fee_bps > 0 /\ params.fill_price = "open"
    /\ fills[1].ts = 1 /\ FGt(fills[1].qty, Zero)
    /\ FLe(FAdd(FMul(fills[1].qty, fills[1].price), fills[1].fee), initial_state.cash)
    /\ fills[2].ts = 2 /\ FLt(fills[2].qty, Zero)
    /\ \A k \in 1..2 : FGe(states[k].cash, params.eps)
    /\ bar[SingleSymbol].Open # bar[SingleSymbol].Close

\* the weights stored for timestamp k are what the allocator returns on the
\* raw intent of timestamp k alone
WeightsFromOwnTimestamp ==
    \A k \in 1..Len(target_position) :
        target_position[k] =
            WeightsAt(a_in.policy, raw_target[k], a_in.budget, a_in.cap, a_in.eps)

\* every stored weight lies in [0,1] and the weights of a timestamp sum to at
\* most the budget (+ eps)
WeightsInRange ==
    \A k \in 1..Len(target_position) :
        /\ \A sym \in Symbols :
              FLe(Zero, target_position[k][sym]) /\ FLe(target_position[k][sym], One)
        /\ FLe(FSum(target_position[k], Symbols), FAdd(a_in.budget, a_in.eps))

\* C35: in MultiBacktestEngine.run with allocation_budget in (0,1] and either
\* allocator, the weights handed to the execution model are computed from the
\* raw signals of their timestamp only, each lies in [0,1] and they sum to at
\* most the budget (+ eps); the execution model never aborts with a
\* target-fraction range error.
C35_EngineWeights ==
    mode = "portfolio" =>
        /\ WeightsFromOwnTimestamp
        /\ WeightsInRange
        /\ err # "target_fraction"

\* cash and positions as the current bar found them: the previous snapshot's,
\* the initial state's in the first bar
OpeningCash == IF t = 1 THEN initial_state.cash ELSE states[t - 1].cash

OpeningPositions == IF t = 1 THEN initial_state.positions ELSE states[t - 1].positions

\* the Fills of the current bar for sym
BarFillsOf(sym) ==
    LET OfBar(f) == f.ts = t /\ f.symbol = sym
    IN  SelectSeq(fills, OfBar)

\* the delta the first instrument of the order wanted in the current bar
FirstWanted ==
    FSub(FDiv(FMul(TargetFraction(target[symbols[1]]),
                   ComputeEquity(OpeningCash, OpeningPositions, last_prices)),
              bar[symbols[1]].Close),
         DictGet(OpeningPositions, symbols[1], Zero))

\* what the opening cash of the bar buys of the first instrument
OpeningCashBuys ==
    IF FGt(OpeningCash, Zero) THEN FDiv(OpeningCash, UnitCost(symbols[1])) ELSE Zero

\* the first instrument of the order has been processed in the current bar
\* and wanted to buy
FirstWantedToBuy ==
    /\ mode = "multi" /\ t >= 1 /\ i >= 2
    /\ FGt(bar[symbols[1]].Close, Zero)
    /\ FGt(FirstWanted, params.eps)

\* the buy of the first instrument is cut to what the opening cash of the bar
\* buys, whatever the later instruments of the bar did; it has no other Fill
\* in the bar
FirstBuyOnOpeningCash ==
    FirstWantedToBuy =>
        \A q \in {IF FLe(FirstWanted, OpeningCashBuys) THEN FirstWanted
                   ELSE OpeningCashBuys} :
            IF FGt(q, params.eps)
            THEN /\ Len(BarFillsOf(symbols[1])) = 1
                 /\ BarFillsOf(symbols[1])[1].qty = q
            ELSE BarFillsOf(symbols[1]) = <<>>

\* a bar has at most one Fill per instrument, the earlier instrument's first
OneFillPerInstrument ==
    (mode = "multi" /\ t >= 1) =>
        /\ \A sym \in Symbols : Len(BarFillsOf(sym)) <= 1
        /\ \A k \in 1..Len(fills) : \A j \in 1..Len(fills) :
              (k < j /\ fills[k].ts = t /\ fills[j].ts = t) =>
                  /\ fills[k].symbol = symbols[1]
                  /\ fills[j].symbol = symbols[2]

\* C36: within a multi-asset bar the buy of the earlier instrument is clamped
\* against the cash available before any later instrument trades: the proceeds
\* of a later sale in the same bar are not used for it, and the unmet part is
\* not traded in that bar (it is sized again at the next bar, on the cash that
\* then includes the proceeds).
C36_EarlierBuyOnOpeningCash == FirstBuyOnOpeningCash /\ OneFillPerInstrument

\* C36 witness: in the first bar the first instrument's buy was cut to the cash
\* of 1, the second instrument, held from the start, was sold after it; in the
\* second bar, the target persisting, the first instrument bought again, more
\* than the cash of the first bar could pay for
C36_Witness ==
    /\ mode = "multi" /\ pc = "bar" /\ t = 2 /\ Len(states) = 2
    /\ initial_state = HoldingInitialState /\ symbols = <<"B", "A">>
    /\ Len(fills) >= 3
    /\ fills[1].ts = 1 /\ fills[1].symbol = "B" /\ FGt(fills[1].qty, Zero)
    /\ FLe(FMul(fills[1].qty, fills[1].price), initial_state.cash)
    /\ "B" \in DOMAIN states[1].positions
    /\ FLt(FMul(states[1].positions["B"], states[1].last_prices["B"]),
           FMul(<<1, 2>>, states[1].equity))
    /\ fills[2].ts = 1 /\ fills[2].symbol = "A" /\ FLt(fills[2].qty, Zero)
    /\ fills[3].ts = 2 /\ fills[3].symbol = "B" /\ FGt(fills[3].qty, Zero)
    /\ FGt(FMul(fills[3].qty, fills[3].price), initial_state.cash)
    /\ target["B"] = One

\* the ledger of sym up to bar k: the initial quantity plus the quantities of
\* the first n Fills that are for sym and no later than bar k
RECURSIVE LedgerQty(_, _, _)
LedgerQty(sym, k, n) ==
    IF n = 0 THEN DictGet(initial_state.positions, sym, Zero)
    ELSE IF fills[n].symbol = sym /\ fills[n].ts <= k
         THEN FAdd(LedgerQty(sym, k, n - 1), fills[n].qty)
         ELSE LedgerQty(sym, k, n - 1)

\* the cash ledger up to bar k: the initial cash less qty x price + fee of the
\* first n Fills that are no later than bar k
RECURSIVE LedgerCash(_, _)
LedgerCash(k, n) ==
    IF n = 0 THEN initial_state.cash
    ELSE IF fills[n].ts <= k
         THEN FSub(LedgerCash(k, n - 1),
                   FAdd(FMul(fills[n].qty, fills[n].price), fills[n].fee))
         ELSE LedgerCash(k, n - 1)

\* the number of Fills no later than bar k
FillsUpTo(k) == Cardinality({n \in 1..Len(fills) : fills[n].ts <= k})

\* the positions of snapshot k are the ledger's: an entry holds the ledger
\* quantity of its symbol, and a symbol without an entry has a ledger quantity
\* within eps of zero
QuantitiesReconcile(k) ==
    \A sym \in Symbols : \A q \in {LedgerQty(sym, k, Len(fills))} :
        IF sym \in DOMAIN states[k].positions
        THEN states[k].positions[sym] = q
        ELSE FLe(FAbs(q), params.eps)

\* the cash of snapshot k is the ledger's: exactly in the single-asset model,
\* up to the snaps of a cash within eps of zero (one per Fill at most) in the
\* multi-asset model
CashReconciles(k) ==
    \A c \in {LedgerCash(k, Len(fills))} :
        IF mode = "single" THEN states[k].cash = c
        ELSE FLe(FAbs(FSub(states[k].cash, c)),
                 FMul(params.eps, <<FillsUpTo(k), 1>>))

\* up to snapshot k every mark is positive and cash is not negative
CleanUpTo(k) ==
    \A j \in 1..k :
        /\ \A sym \in DOMAIN states[j].last_prices : FGt(states[j].last_prices[sym], Zero)
        /\ FGe(states[j].cash, Zero)

\* C37: ledger reconciliation, in both models (stated on the snapshots of
\* runs with positive prices and no negative cash): at every snapshot the held
\* quantity of each symbol is the initial quantity plus the sum of the Fill
\* quantities for it (no entry when that is within eps of zero), and cash is
\* the initial cash less the sum of qty x price + fee over the Fills, up to
\* the multi-asset snap of a cash within eps of zero.
C37_LedgerReconciles ==
    InBar => \A k \in 1..Len(states) :
                 CleanUpTo(k) => (QuantitiesReconcile(k) /\ CashReconciles(k))

====
